---------------------------- MODULE Spec2Model ----------------------------
(***************************************************************************)
(* Model of the caching core of dustcast (src/app.py): the SmartCache      *)
(* store, the cached_operation memoizing wrapper and the analyzer          *)
(* pipeline built on them.                                                 *)
(*                                                                         *)
(* Time is the wall clock in seconds.  Python values are pairs              *)
(* <<type name, content>>; a float is held in thousandths.                 *)
(***************************************************************************)
EXTENDS Integers, Sequences, FiniteSets, TLC

VARIABLES
    now,          \* time.time(), seconds
    default_ttl,  \* SmartCache.default_ttl, seconds
    data_dir,     \* cache/data:     file name -> [mtime, bytes]
    metadata_dir, \* cache/metadata: file name -> [mtime, json]
    stats,        \* SmartCache.stats
    last,         \* what the last operation did and returned
    written,      \* history: key -> the payload and time of its last complete set
    pending,      \* history: keys whose last wrapped call ended with op raising
    ops,          \* history: number of operations so far
    backend,      \* what the remote backend answers: [modis, landsat]
    threads       \* concurrent requests: thread -> where it is in its wrapped call

vars == <<now, default_ttl, data_dir, metadata_dir, stats, last, written, pending, ops,
          backend, threads>>

----------------------------------------------------------------------------
(* Bounds of the model *)

MaxOps == 3        \* operations per behaviour (caps the counters)
MaxTicks == 3      \* clock steps per behaviour

TickSeconds == 15 * 60   \* granularity of the clock

----------------------------------------------------------------------------
(* Python values *)

PyNone == <<"NoneType", 0>>
PyInt(n) == <<"int", n>>
PyFloat(m) == <<"float", m>>
PyStr(s) == <<"str", s>>
PyList(items) == <<"list", items>>
PyTuple(items) == <<"tuple", items>>
PyDict(pairs) == <<"dict", pairs>>    \* pairs in insertion order
PyObject(cls, addr) == <<cls, addr>>  \* an instance without __repr__

TypeName(x) == x[1]

RECURSIVE Concat(_)
Concat(seqs) ==
    IF seqs = <<>> THEN <<>> ELSE Head(seqs) \o Concat(Tail(seqs))

RECURSIVE JoinWith(_, _)
JoinWith(seqs, sep) ==
    IF seqs = <<>> THEN <<>>
    ELSE IF Len(seqs) = 1 THEN Head(seqs)
    ELSE Head(seqs) \o sep \o JoinWith(Tail(seqs), sep)

----------------------------------------------------------------------------
(* str() of a value, as a sequence of text tokens *)

Digits(m) ==
    IF m < 0 THEN <<"-", ToString(-m)>> ELSE <<ToString(m)>>

FloatText(m) ==
    LET a == IF m < 0 THEN -m ELSE m
    IN  (IF m < 0 THEN <<"-">> ELSE <<>>)
        \o <<ToString(a \div 1000), ".", ToString(a % 1000)>>

RECURSIVE Repr(_)
Repr(x) ==
    CASE x[1] = "NoneType" -> <<"None">>
      [] x[1] = "int"   -> Digits(x[2])
      [] x[1] = "float" -> FloatText(x[2])
      [] x[1] = "str"   -> <<"'", x[2], "'">>
      [] x[1] = "list"  ->
            <<"[">> \o JoinWith([i \in 1..Len(x[2]) |-> Repr(x[2][i])], <<", ">>) \o <<"]">>
      [] x[1] = "tuple" ->
            <<"(">> \o JoinWith([i \in 1..Len(x[2]) |-> Repr(x[2][i])], <<", ">>)
                    \o (IF Len(x[2]) = 1 THEN <<",">> ELSE <<>>) \o <<")">>
      [] x[1] = "dict"  ->
            <<"{">> \o JoinWith([i \in 1..Len(x[2]) |->
                            Repr(x[2][i][1]) \o <<": ">> \o Repr(x[2][i][2])], <<", ">>)
                    \o <<"}">>
      [] OTHER -> <<"<", x[1], " object at ", ToString(x[2]), ">">>


----------------------------------------------------------------------------
(* A local variable: F applied to the value of v, which is computed once *)

Bind(v, F(_)) == CHOOSE r \in {F(x) : x \in {v}} : TRUE

----------------------------------------------------------------------------
(* pickle: the byte stream is a sequence of opcodes <<code, operand>> *)

Op(code, operand) == <<code, operand>>

RECURSIVE Save(_)
Save(x) ==
    CASE x[1] = "NoneType" -> <<Op("NONE", 0)>>
      [] x[1] = "int"   ->
            IF x[2] >= 0 /\ x[2] < 256 THEN <<Op("BININT1", x[2])>>
            ELSE IF x[2] >= 0 /\ x[2] < 65536 THEN <<Op("BININT2", x[2])>>
            ELSE <<Op("BININT", x[2])>>
      [] x[1] = "float" -> <<Op("BINFLOAT", x[2])>>
      [] x[1] = "str"   -> <<Op("SHORT_BINUNICODE", x[2]), Op("MEMOIZE", 0)>>
      [] x[1] = "list"  ->
            <<Op("EMPTY_LIST", 0), Op("MEMOIZE", 0)>> \o
            (IF Len(x[2]) = 0 THEN <<>>
             ELSE IF Len(x[2]) = 1 THEN Save(x[2][1]) \o <<Op("APPEND", 0)>>
             ELSE <<Op("MARK", 0)>>
                  \o Concat([i \in 1..Len(x[2]) |-> Save(x[2][i])])
                  \o <<Op("APPENDS", 0)>>)
      [] x[1] = "dict"  ->
            <<Op("EMPTY_DICT", 0), Op("MEMOIZE", 0)>> \o
            (IF Len(x[2]) = 0 THEN <<>>
             ELSE IF Len(x[2]) = 1
                  THEN Save(x[2][1][1]) \o Save(x[2][1][2]) \o <<Op("SETITEM", 0)>>
             ELSE <<Op("MARK", 0)>>
                  \o Concat([i \in 1..Len(x[2]) |-> Save(x[2][i][1]) \o Save(x[2][i][2])])
                  \o <<Op("SETITEMS", 0)>>)

OpSize(op) ==
    CASE op[1] = "PROTO" -> 2
      [] op[1] = "FRAME" -> 9
      [] op[1] = "BININT1" -> 2
      [] op[1] = "BININT2" -> 3
      [] op[1] = "BININT" -> 5
      [] op[1] = "BINFLOAT" -> 9
      [] op[1] = "SHORT_BINUNICODE" -> 2 + Len(op[2])
      [] OTHER -> 1

\* the bytes of the opcodes lo..hi of a stream
RECURSIVE SizeRange(_, _, _)
SizeRange(bytes, lo, hi) ==
    IF lo > hi THEN 0
    ELSE IF lo = hi THEN OpSize(bytes[lo])
    ELSE LET mid == (lo + hi) \div 2
         IN  SizeRange(bytes, lo, mid) + SizeRange(bytes, mid + 1, hi)

StreamSize(bytes) == SizeRange(bytes, 1, Len(bytes))

\* pickle.dump(data, f): the complete stream written for data
PickleDump(x) ==
    Bind(Save(x) \o <<Op("STOP", 0)>>,
         LAMBDA body : <<Op("PROTO", 4), Op("FRAME", StreamSize(body))>> \o body)

Front(s) == SubSeq(s, 1, Len(s) - 1)
Top(s) == s[Len(s)]

\* a mapping update d[k] = v on the ordered pairs of a dict
SetItem(pairs, k, v) ==
    IF \E i \in 1..Len(pairs) : pairs[i][1] = k
    THEN [i \in 1..Len(pairs) |-> IF pairs[i][1] = k THEN <<k, v>> ELSE pairs[i]]
    ELSE Append(pairs, <<k, v>>)

RECURSIVE SetItems(_, _)
SetItems(pairs, flat) ==
    IF Len(flat) < 2 THEN pairs
    ELSE SetItems(SetItem(pairs, flat[1], flat[2]), SubSeq(flat, 3, Len(flat)))

LoadError == [ok |-> FALSE, value |-> PyNone]

\* the unpickling machine: value stack, stack of marked stacks; done after
\* STOP, failed after an opcode that raises
Machine(stack, marks) ==
    [stack |-> stack, marks |-> marks, done |-> FALSE, failed |-> FALSE]

Halt(m) == [m EXCEPT !.failed = TRUE]

Push(m, x) == [m EXCEPT !.stack = Append(m.stack, x)]

\* one opcode
Exec(m, op) ==
    LET c == op[1]
        stack == m.stack
        marks == m.marks
    IN  IF m.done \/ m.failed THEN m
        ELSE
        CASE c \in {"PROTO", "FRAME", "MEMOIZE"} -> m
          [] c = "NONE" -> Push(m, PyNone)
          [] c \in {"BININT1", "BININT2", "BININT"} -> Push(m, PyInt(op[2]))
          [] c = "BINFLOAT" -> Push(m, PyFloat(op[2]))
          [] c = "SHORT_BINUNICODE" -> Push(m, PyStr(op[2]))
          [] c = "EMPTY_LIST" -> Push(m, PyList(<<>>))
          [] c = "EMPTY_DICT" -> Push(m, PyDict(<<>>))
          [] c = "MARK" -> Machine(<<>>, Append(marks, stack))
          [] c = "APPEND" ->
                IF Len(stack) < 2 THEN Halt(m)
                ELSE LET lst == stack[Len(stack) - 1]
                     IN  Machine(Append(SubSeq(stack, 1, Len(stack) - 2),
                                        PyList(Append(lst[2], Top(stack)))),
                                 marks)
          [] c = "APPENDS" ->
                IF marks = <<>> \/ Top(marks) = <<>> THEN Halt(m)
                ELSE LET below == Top(marks)
                         lst == Top(below)
                     IN  Machine(Append(Front(below), PyList(lst[2] \o stack)),
                                 Front(marks))
          [] c = "SETITEM" ->
                IF Len(stack) < 3 THEN Halt(m)
                ELSE LET d == stack[Len(stack) - 2]
                     IN  Machine(Append(SubSeq(stack, 1, Len(stack) - 3),
                                        PyDict(SetItem(d[2], stack[Len(stack) - 1],
                                                       Top(stack)))),
                                 marks)
          [] c = "SETITEMS" ->
                IF marks = <<>> \/ Top(marks) = <<>> THEN Halt(m)
                ELSE LET below == Top(marks)
                         d == Top(below)
                     IN  Machine(Append(Front(below), PyDict(SetItems(d[2], stack))),
                                 Front(marks))
          [] c = "STOP" -> IF stack = <<>> THEN Halt(m) ELSE [m EXCEPT !.done = TRUE]
          [] OTHER -> Halt(m)

\* the opcodes lo..hi in order
RECURSIVE Run(_, _, _, _)
Run(bytes, m, lo, hi) ==
    IF lo > hi THEN m
    ELSE IF lo = hi THEN Exec(m, bytes[lo])
    ELSE Bind(Run(bytes, m, lo, (lo + hi) \div 2),
              LAMBDA half : IF half.done \/ half.failed THEN half
                            ELSE Run(bytes, half, (lo + hi) \div 2 + 1, hi))

\* pickle.load(f): [ok, value]; ok is FALSE when the load raises, as it does
\* when the input ends before STOP (EOFError: Ran out of input)
PickleLoad(bytes) ==
    Bind(Run(bytes, Machine(<<>>, <<>>), 1, Len(bytes)),
         LAMBDA m : IF m.done THEN [ok |-> TRUE, value |-> Top(m.stack)] ELSE LoadError)

----------------------------------------------------------------------------
(* The cache key *)

\* the order Python's str comparison gives the keyword names the program uses
KeywordOrder == <<"days", "days_back", "end_date", "landsat_data", "modis_data", "start_date">>

Rank(name) == CHOOSE i \in 1..Len(KeywordOrder) : KeywordOrder[i] = name

RECURSIVE Insert(_, _)
Insert(sortedItems, item) ==
    IF sortedItems = <<>> THEN <<item>>
    ELSE IF Rank(item[1]) < Rank(Head(sortedItems)[1])
         THEN <<item>> \o sortedItems
         ELSE <<Head(sortedItems)>> \o Insert(Tail(sortedItems), item)

\* sorted(kwargs.items()): kwargs is the sequence of <<name, value>> as passed
RECURSIVE Sorted(_)
Sorted(items) ==
    IF items = <<>> THEN <<>> ELSE Insert(Sorted(Front(items)), Top(items))

ItemsList(items) ==
    PyList([i \in 1..Len(items) |-> PyTuple(<<PyStr(items[i][1]), items[i][2]>>)])

\* hashlib.md5(content.encode()).hexdigest(): taken to be free of collisions
Md5(content) == [md5 |-> content]

generate_cache_key_as_supplied(args, kwargs) ==
    Md5(Repr(PyTuple(args)) \o Repr(ItemsList(kwargs)))

generate_cache_key(args, kwargs) ==
    LET content == Repr(PyTuple(args)) \o Repr(ItemsList(Sorted(kwargs)))
    IN  Md5(content)

get_cache_path(cache_key, cache_type) ==
    [dir |-> cache_type, name |-> [stem |-> cache_key, ext |-> ".pkl"]]

----------------------------------------------------------------------------
(* SmartCache.  A cache state c is [data, metadata, stats]: the two          *)
(* directories and the counters.  An optional argument is <<>> for None and  *)
(* <<n>> for the number n.                                                   *)

None == <<>>
Some(n) == <<n>>
Truthy(opt) == opt # <<>> /\ opt[1] # 0

ZeroStats == [hits |-> 0, misses |-> 0, saves |-> 0, errors |-> 0]

Bump(c, counter) == [c EXCEPT !.stats[counter] = @ + 1]

Exists(c, path) == path.name \in DOMAIN c[path.dir]
FileAt(c, path) == c[path.dir][path.name]

\* the directory with the file at path (re)written
WriteFile(dir, name, file) ==
    [n \in DOMAIN dir \cup {name} |-> IF n = name THEN file ELSE dir[n]]

\* variant: the store default decides, whatever TTL the caller passes
is_cache_valid_default_only(c, cache_path, ttl_seconds) ==
    IF ~Exists(c, cache_path) THEN FALSE
    ELSE LET file_age == now - FileAt(c, cache_path).mtime
         IN  file_age < default_ttl

\* variant: the age test is not strict
is_cache_valid_inclusive(c, cache_path, ttl_seconds) ==
    IF ~Exists(c, cache_path) THEN FALSE
    ELSE LET ttl == IF Truthy(ttl_seconds) THEN ttl_seconds[1] ELSE default_ttl
             file_age == now - FileAt(c, cache_path).mtime
         IN  file_age <= ttl

\* variant: no fallback to the store default
is_cache_valid_no_default(c, cache_path, ttl_seconds) ==
    IF ~Exists(c, cache_path) THEN FALSE
    ELSE LET ttl == IF Truthy(ttl_seconds) THEN ttl_seconds[1] ELSE 0
             file_age == now - FileAt(c, cache_path).mtime
         IN  file_age < ttl

is_cache_valid(c, cache_path, ttl_seconds) ==
    IF ~Exists(c, cache_path) THEN FALSE
    ELSE LET ttl == IF Truthy(ttl_seconds) THEN ttl_seconds[1] ELSE default_ttl
             file_age == now - FileAt(c, cache_path).mtime
         IN  file_age < ttl

\* variant: a failed read is counted as a miss
get_error_as_miss(c, cache_key, ttl_minutes) ==
    LET ttl_seconds == IF Truthy(ttl_minutes) THEN Some(ttl_minutes[1] * 60) ELSE None
        cache_path == get_cache_path(cache_key, "data")
    IN  IF is_cache_valid(c, cache_path, ttl_seconds)
        THEN Bind(PickleLoad(FileAt(c, cache_path).bytes),
                  LAMBDA loaded :
                      IF loaded.ok
                      THEN [c |-> Bump(c, "hits"), ret |-> loaded.value, how |-> "hit"]
                      ELSE [c |-> Bump(c, "misses"), ret |-> PyNone, how |-> "miss"])
        ELSE [c |-> Bump(c, "misses"), ret |-> PyNone, how |-> "miss"]

\* variant: a lookup that finds the entry too old removes it
get_evicts_expired(c, cache_key, ttl_minutes) ==
    LET ttl_seconds == IF Truthy(ttl_minutes) THEN Some(ttl_minutes[1] * 60) ELSE None
        cache_path == get_cache_path(cache_key, "data")
    IN  IF is_cache_valid(c, cache_path, ttl_seconds)
        THEN Bind(PickleLoad(FileAt(c, cache_path).bytes),
                  LAMBDA loaded :
                      IF loaded.ok
                      THEN [c |-> Bump(c, "hits"), ret |-> loaded.value, how |-> "hit"]
                      ELSE [c |-> Bump(c, "errors"), ret |-> PyNone, how |-> "error"])
        ELSE [c |-> Bump([c EXCEPT !.data = [n \in DOMAIN @ \ {cache_path.name} |-> @[n]]],
                         "misses"),
              ret |-> PyNone, how |-> "miss"]

\* variant: the hit is counted before the payload is loaded
get_counts_hit_early(c, cache_key, ttl_minutes) ==
    LET ttl_seconds == IF Truthy(ttl_minutes) THEN Some(ttl_minutes[1] * 60) ELSE None
        cache_path == get_cache_path(cache_key, "data")
    IN  IF is_cache_valid(c, cache_path, ttl_seconds)
        THEN Bind(PickleLoad(FileAt(c, cache_path).bytes),
                  LAMBDA loaded :
                      IF loaded.ok
                      THEN [c |-> Bump(c, "hits"), ret |-> loaded.value, how |-> "hit"]
                      ELSE [c |-> Bump(Bump(c, "hits"), "errors"), ret |-> PyNone,
                            how |-> "error"])
        ELSE [c |-> Bump(c, "misses"), ret |-> PyNone, how |-> "miss"]

\* get: [c, ret, how] with how in {"hit", "miss", "error"}
get(c, cache_key, ttl_minutes) ==
    LET ttl_seconds == IF Truthy(ttl_minutes) THEN Some(ttl_minutes[1] * 60) ELSE None
        cache_path == get_cache_path(cache_key, "data")
    IN  IF is_cache_valid(c, cache_path, ttl_seconds)
        THEN Bind(PickleLoad(FileAt(c, cache_path).bytes),
                  LAMBDA loaded :
                      IF loaded.ok
                      THEN [c |-> Bump(c, "hits"), ret |-> loaded.value, how |-> "hit"]
                      ELSE [c |-> Bump(c, "errors"), ret |-> PyNone, how |-> "error"])
        ELSE [c |-> Bump(c, "misses"), ret |-> PyNone, how |-> "miss"]

\* where a set can fail, in the order of its steps
SetFaults == {"none", "open_data", "dump", "getsize", "open_metadata", "dump_metadata"}

Metadata(cache_key, size, data, whole) ==
    [key |-> cache_key, timestamp |-> now, size_bytes |-> size,
     data_type |-> TypeName(data), whole |-> whole]

\* variant: the save is counted before the metadata is written
set_counts_early(c, cache_key, data, fault, cut) ==
    Bind(PickleDump(data), LAMBDA stream :
    LET cache_path == get_cache_path(cache_key, "data")
        torn == [c EXCEPT !.data =
                      WriteFile(@, cache_path.name,
                                [mtime |-> now, bytes |-> SubSeq(stream, 1, cut)])]
        dumped == [c EXCEPT !.data =
                      WriteFile(@, cache_path.name, [mtime |-> now, bytes |-> stream])]
    IN  CASE fault = "open_data" -> Bump(c, "errors")
          [] fault = "dump" -> Bump(torn, "errors")
          [] OTHER -> Bump(dumped, "saves"))

\* variant: rewriting an entry keeps the time it was first stored
set_keeps_stored_at(c, cache_key, data, fault, cut) ==
    Bind(PickleDump(data), LAMBDA stream :
    LET cache_path == get_cache_path(cache_key, "data")
        metadata_path == get_cache_path(cache_key, "metadata")
        at == IF Exists(c, cache_path) THEN FileAt(c, cache_path).mtime ELSE now
        dumped == [c EXCEPT !.data =
                      WriteFile(@, cache_path.name, [mtime |-> at, bytes |-> stream])]
        meta_done == [dumped EXCEPT !.metadata =
                      WriteFile(@, metadata_path.name,
                                [mtime |-> now,
                                 json |-> Metadata(cache_key, StreamSize(stream), data,
                                                   TRUE)])]
    IN  IF fault = "none" THEN Bump(meta_done, "saves") ELSE Bump(c, "errors"))

\* variant: a set whose dump fails removes the payload it could not write
set_unlinks_torn(c, cache_key, data, fault, cut) ==
    Bind(PickleDump(data), LAMBDA stream :
    LET cache_path == get_cache_path(cache_key, "data")
        metadata_path == get_cache_path(cache_key, "metadata")
        unlinked == [c EXCEPT !.data = [n \in DOMAIN @ \ {cache_path.name} |-> @[n]]]
        dumped == [c EXCEPT !.data =
                      WriteFile(@, cache_path.name, [mtime |-> now, bytes |-> stream])]
        size == StreamSize(stream)
        meta_torn == [dumped EXCEPT !.metadata =
                      WriteFile(@, metadata_path.name,
                                [mtime |-> now,
                                 json |-> Metadata(cache_key, size, data, FALSE)])]
        meta_done == [dumped EXCEPT !.metadata =
                      WriteFile(@, metadata_path.name,
                                [mtime |-> now,
                                 json |-> Metadata(cache_key, size, data, TRUE)])]
    IN  CASE fault = "open_data" -> Bump(c, "errors")
          [] fault = "dump" -> Bump(unlinked, "errors")
          [] fault = "getsize" -> Bump(dumped, "errors")
          [] fault = "open_metadata" -> Bump(dumped, "errors")
          [] fault = "dump_metadata" -> Bump(meta_torn, "errors")
          [] OTHER -> Bump(meta_done, "saves"))

\* set with the step at which it fails (fault) and, for a failing dump, the
\* number of opcodes that reached the file (cut)
set(c, cache_key, data, fault, cut) ==
    Bind(PickleDump(data), LAMBDA stream :
    LET cache_path == get_cache_path(cache_key, "data")
        metadata_path == get_cache_path(cache_key, "metadata")
        torn == [c EXCEPT !.data =
                      WriteFile(@, cache_path.name,
                                [mtime |-> now, bytes |-> SubSeq(stream, 1, cut)])]
        dumped == [c EXCEPT !.data =
                      WriteFile(@, cache_path.name, [mtime |-> now, bytes |-> stream])]
        size == StreamSize(stream)
        meta_torn == [dumped EXCEPT !.metadata =
                      WriteFile(@, metadata_path.name,
                                [mtime |-> now,
                                 json |-> Metadata(cache_key, size, data, FALSE)])]
        meta_done == [dumped EXCEPT !.metadata =
                      WriteFile(@, metadata_path.name,
                                [mtime |-> now,
                                 json |-> Metadata(cache_key, size, data, TRUE)])]
    IN  CASE fault = "open_data" -> Bump(c, "errors")
          [] fault = "dump" -> Bump(torn, "errors")
          [] fault = "getsize" -> Bump(dumped, "errors")
          [] fault = "open_metadata" -> Bump(dumped, "errors")
          [] fault = "dump_metadata" -> Bump(meta_torn, "errors")
          [] OTHER -> Bump(meta_done, "saves"))

\* what a failing dump can leave in the file is a strict prefix of the stream;
\* the two extremes are taken: nothing, and all but the closing opcode
Cuts(data) == {0, Len(PickleDump(data)) - 1}

\* variant: the sweep spares what the longest per-call TTL would still serve
Expired_by_longest_ttl(c) ==
    {name \in DOMAIN c.data :
        ~is_cache_valid(c, [dir |-> "data", name |-> name], Some(120 * 60))}

\* os.listdir order is arbitrary; the sweep's result does not depend on it
Expired(c) ==
    {name \in DOMAIN c.data :
        ~is_cache_valid(c, [dir |-> "data", name |-> name], None)}

\* variant: the sweep takes the entries it removes off the saves counter
clear_expired_uncounts_saves(c) ==
    LET gone == Expired(c)
    IN  [c |-> [c EXCEPT !.data = [n \in DOMAIN @ \ gone |-> @[n]],
                         !.metadata = [n \in DOMAIN @ \ gone |-> @[n]],
                         !.stats.saves = IF @ > Cardinality(gone)
                                         THEN @ - Cardinality(gone) ELSE 0],
         cleared |-> Cardinality(gone)]

\* variant: the sweep spares what the longest per-call TTL would still serve
clear_expired_two_hours(c) ==
    LET gone == Expired_by_longest_ttl(c)
    IN  [c |-> [c EXCEPT !.data = [n \in DOMAIN @ \ gone |-> @[n]],
                         !.metadata = [n \in DOMAIN @ \ gone |-> @[n]]],
         cleared |-> Cardinality(gone)]

\* clear_expired without an I/O failure: [c, cleared]
clear_expired(c) ==
    LET gone == Expired(c)
    IN  [c |-> [c EXCEPT !.data = [n \in DOMAIN @ \ gone |-> @[n]],
                         !.metadata = [n \in DOMAIN @ \ gone |-> @[n]]],
         cleared |-> Cardinality(gone)]

----------------------------------------------------------------------------
(* cached_operation.  ran is what func does when it is invoked from the     *)
(* state the lookup leaves: [c, raised, value].                             *)

CallKey(func_name, args, kwargs) ==
    generate_cache_key(<<PyStr(func_name)>> \o args, kwargs)

\* a func that does not touch the cache: it raises or returns value
Leaf(c, ttl_minutes, func_name, args, kwargs, raised, value) ==
    [c |-> get(c, CallKey(func_name, args, kwargs), ttl_minutes).c,
     raised |-> raised, value |-> value]

\* what a wrapped call did: the lookup (how, got), whether func ran, the sets
Outcome(c, cached, ret, raised, invoked, sets) ==
    [c |-> c, ret |-> ret, raised |-> raised, how |-> cached.how, got |-> cached.ret,
     invoked |-> invoked, sets |-> sets]

\* variant: the result is read back from the cache after it was saved
wrapper_reads_back(c, ttl_minutes, func_name, args, kwargs, ran, fault, cut) ==
    Bind(CallKey(func_name, args, kwargs), LAMBDA cache_key :
    Bind(get(c, cache_key, ttl_minutes), LAMBDA cached :
        IF cached.ret # PyNone
        THEN Outcome(cached.c, cached, cached.ret, FALSE, 0, <<>>)
        ELSE Bind(ran, LAMBDA result :
             IF result.raised
             THEN Outcome(result.c, cached, PyNone, TRUE, 1, <<>>)
             ELSE Outcome(set(result.c, cache_key, result.value, fault, cut), cached,
                          IF fault = "none" THEN result.value ELSE PyNone, FALSE, 1,
                          <<[key |-> cache_key, data |-> result.value]>>))))

\* variant: a failure is saved like a result
wrapper_caches_failure(c, ttl_minutes, func_name, args, kwargs, ran, fault, cut) ==
    Bind(CallKey(func_name, args, kwargs), LAMBDA cache_key :
    Bind(get(c, cache_key, ttl_minutes), LAMBDA cached :
        IF cached.ret # PyNone
        THEN Outcome(cached.c, cached, cached.ret, FALSE, 0, <<>>)
        ELSE Bind(ran, LAMBDA result :
             IF result.raised
             THEN Outcome(set(result.c, cache_key, PyStr("error"), fault, cut), cached,
                          PyNone, TRUE, 1,
                          <<[key |-> cache_key, data |-> PyStr("error")]>>)
             ELSE Outcome(set(result.c, cache_key, result.value, fault, cut), cached,
                          result.value, FALSE, 1,
                          <<[key |-> cache_key, data |-> result.value]>>))))

wrapper(c, ttl_minutes, func_name, args, kwargs, ran, fault, cut) ==
    Bind(CallKey(func_name, args, kwargs), LAMBDA cache_key :
    Bind(get(c, cache_key, ttl_minutes), LAMBDA cached :
        IF cached.ret # PyNone
        THEN Outcome(cached.c, cached, cached.ret, FALSE, 0, <<>>)
        ELSE Bind(ran, LAMBDA result :
             IF result.raised
             THEN Outcome(result.c, cached, PyNone, TRUE, 1, <<>>)
             ELSE Outcome(set(result.c, cache_key, result.value, fault, cut), cached,
                          result.value, FALSE, 1,
                          <<[key |-> cache_key, data |-> result.value]>>))))

----------------------------------------------------------------------------
(* get_stats *)

\* n / d rounded to the nearest integer, d > 0
RoundDiv(n, d) == (2 * n + d) \div (2 * d)

RECURSIVE SizeOf(_, _)
SizeOf(dir, names) ==
    IF names = {} THEN 0
    ELSE LET n == CHOOSE x \in names : TRUE
         IN  StreamSize(dir[n].bytes) + SizeOf(dir, names \ {n})

\* round(): n / d to the nearest integer, a tie to the even one; n >= 0, d > 0
Round(n, d) ==
    LET q == n \div d
        r == n % d
    IN  IF 2 * r > d \/ (2 * r = d /\ q % 2 = 1) THEN q + 1 ELSE q

\* variant: read errors are counted as requests
get_stats_counts_errors(c) ==
    LET total_requests == c.stats.hits + c.stats.misses + c.stats.errors
        hit_rate == IF total_requests > 0
                    THEN Round(c.stats.hits * 1000, total_requests) ELSE 0
    IN  [hit_rate_percent |-> hit_rate,
         total_requests |-> total_requests,
         cache_files |-> Cardinality(DOMAIN c.data),
         cache_size_mb |-> Round(SizeOf(c.data, DOMAIN c.data) * 100, 1024 * 1024),
         hits |-> c.stats.hits, misses |-> c.stats.misses,
         saves |-> c.stats.saves, errors |-> c.stats.errors]

\* hit_rate_percent in tenths of a percent, cache_size_mb in hundredths
get_stats(c) ==
    LET total_requests == c.stats.hits + c.stats.misses
        hit_rate == IF total_requests > 0
                    THEN Round(c.stats.hits * 1000, total_requests) ELSE 0
        cache_size == SizeOf(c.data, DOMAIN c.data)
    IN  [hit_rate_percent |-> hit_rate,
         total_requests |-> total_requests,
         cache_files |-> Cardinality(DOMAIN c.data),
         cache_size_mb |-> Round(cache_size * 100, 1024 * 1024),
         hits |-> c.stats.hits, misses |-> c.stats.misses,
         saves |-> c.stats.saves, errors |-> c.stats.errors]

----------------------------------------------------------------------------
(* clear_cache (POST /api/cache/clear).  The directories are emptied one    *)
(* after the other and the counters are reset last; an os.remove that       *)
(* raises ends the request with what was removed so far and the counters    *)
(* as they were.                                                            *)

\* the directory in which the first os.remove raises, if any
ClearFaults == {"none", "data", "metadata"}

\* clear_cache with the counters reset before the files are removed
clear_cache_resets_first(c, fault) ==
    IF fault = "data" /\ DOMAIN c.data # {}
    THEN [c |-> [c EXCEPT !.stats = ZeroStats], cleared_files |-> 0, status |-> 500]
    ELSE IF fault = "metadata" /\ DOMAIN c.metadata # {}
    THEN [c |-> [c EXCEPT !.data = <<>>, !.stats = ZeroStats],
          cleared_files |-> Cardinality(DOMAIN c.data), status |-> 500]
    ELSE [c |-> [data |-> <<>>, metadata |-> <<>>, stats |-> ZeroStats],
          cleared_files |-> Cardinality(DOMAIN c.data) + Cardinality(DOMAIN c.metadata),
          status |-> 200]

\* [c, cleared_files, status]
clear_cache(c, fault) ==
    IF fault = "data" /\ DOMAIN c.data # {}
    THEN [c |-> c, cleared_files |-> 0, status |-> 500]
    ELSE IF fault = "metadata" /\ DOMAIN c.metadata # {}
    THEN [c |-> [c EXCEPT !.data = <<>>],
          cleared_files |-> Cardinality(DOMAIN c.data), status |-> 500]
    ELSE [c |-> [data |-> <<>>, metadata |-> <<>>, stats |-> ZeroStats],
          cleared_files |-> Cardinality(DOMAIN c.data) + Cardinality(DOMAIN c.metadata),
          status |-> 200]

----------------------------------------------------------------------------
(* TashkentDustAnalyzer.  Floats are in thousandths.                        *)

Analyzer == PyObject("__main__.TashkentDustAnalyzer", 1)

Max(a, b) == IF a > b THEN a ELSE b
Min(a, b) == IF a < b THEN a ELSE b

Has(d, name) == \E i \in 1..Len(d[2]) : d[2][i][1] = PyStr(name)
Item(d, name) == d[2][CHOOSE i \in 1..Len(d[2]) : d[2][i][1] = PyStr(name)][2]

\* dict.get(name, default)
DictGet(d, name, default) == IF Has(d, name) THEN Item(d, name) ELSE default

\* float(x): [raised, value]
ToFloat(x) ==
    CASE x[1] = "float" -> [raised |-> FALSE, value |-> x]
      [] x[1] = "int" -> [raised |-> FALSE, value |-> PyFloat(x[2] * 1000)]
      [] OTHER -> [raised |-> TRUE, value |-> PyNone]

\* a backend answer: down (the call raises), or the reduced statistics and
\* the image count
Down == [down |-> TRUE, stats |-> PyDict(<<>>), count |-> 0]
Answer(reduced, count) == [down |-> FALSE, stats |-> PyDict(reduced), count |-> count]

ModisUp ==
    Answer(<< <<PyStr("LST_Day_1km_mean"), PyFloat(30000)>>,
              <<PyStr("LST_Day_1km_stdDev"), PyFloat(2000)>> >>, 60)

LandsatUp ==
    Answer(<< <<PyStr("NDVI_mean"), PyFloat(100)>>,
              <<PyStr("NDVI_stdDev"), PyFloat(50)>>,
              <<PyStr("NDDI_mean"), PyFloat(200)>>,
              <<PyStr("NDDI_stdDev"), PyFloat(30)>> >>, 12)

Raise == [raised |-> TRUE, value |-> PyNone]
Return(value) == [raised |-> FALSE, value |-> value]

\* the body of get_modis_data: [raised, value]
get_modis_data_func(answer) ==
    LET mean == ToFloat(DictGet(answer.stats, "LST_Day_1km_mean", PyInt(0)))
        std == ToFloat(DictGet(answer.stats, "LST_Day_1km_stdDev", PyInt(0)))
    IN  IF answer.down \/ mean.raised \/ std.raised THEN Raise
        ELSE Return(PyDict(<< <<PyStr("lst_day_mean"), mean.value>>,
                              <<PyStr("lst_day_std"), std.value>>,
                              <<PyStr("modis_count"), PyInt(answer.count)>> >>))

\* the body of get_landsat_data: [raised, value]
get_landsat_data_func(answer) ==
    LET ndvi == ToFloat(DictGet(answer.stats, "NDVI_mean", PyInt(0)))
        ndvi_std == ToFloat(DictGet(answer.stats, "NDVI_stdDev", PyInt(0)))
        nddi == ToFloat(DictGet(answer.stats, "NDDI_mean", PyInt(0)))
        nddi_std == ToFloat(DictGet(answer.stats, "NDDI_stdDev", PyInt(0)))
    IN  IF answer.down \/ ndvi.raised \/ ndvi_std.raised \/ nddi.raised \/ nddi_std.raised
        THEN Raise
        ELSE Return(PyDict(<< <<PyStr("ndvi_mean"), ndvi.value>>,
                              <<PyStr("ndvi_std"), ndvi_std.value>>,
                              <<PyStr("nddi_mean"), nddi.value>>,
                              <<PyStr("nddi_std"), nddi_std.value>>,
                              <<PyStr("landsat_count"), PyInt(answer.count)>> >>))

\* variant: an index equal to a threshold takes the higher level
calculate_dust_risk_inclusive(modis_data, landsat_data) ==
    IF ~Has(modis_data, "lst_day_mean") \/ ~Has(landsat_data, "ndvi_mean")
       \/ ~Has(landsat_data, "nddi_mean")
    THEN Raise
    ELSE
    LET temperature == Item(modis_data, "lst_day_mean")[2]
        ndvi == Item(landsat_data, "ndvi_mean")[2]
        nddi == Item(landsat_data, "nddi_mean")[2]
        temp_factor == Max(0, RoundDiv(temperature - 25000, 20))
        veg_factor == Max(0, 1000 - ndvi)
        dust_factor == Max(0, nddi + 100)
        weighted == RoundDiv(4 * dust_factor + 3 * temp_factor + 3 * veg_factor, 10)
        dust_risk_index == Max(0, Min(1000, weighted))
        risk_level == IF dust_risk_index >= 600 THEN "high"
                      ELSE IF dust_risk_index >= 300 THEN "moderate"
                      ELSE "low"
    IN  Return(PyDict(<< <<PyStr("dust_risk_index"), PyFloat(dust_risk_index)>>,
                         <<PyStr("risk_level"), PyStr(risk_level)>>,
                         <<PyStr("temperature_factor"), PyFloat(temp_factor)>>,
                         <<PyStr("vegetation_factor"), PyFloat(veg_factor)>>,
                         <<PyStr("dust_factor"), PyFloat(dust_factor)>> >>))

\* the body of calculate_dust_risk: [raised, value]
calculate_dust_risk_func(modis_data, landsat_data) ==
    IF ~Has(modis_data, "lst_day_mean") \/ ~Has(landsat_data, "ndvi_mean")
       \/ ~Has(landsat_data, "nddi_mean")
    THEN Raise
    ELSE
    LET temperature == Item(modis_data, "lst_day_mean")[2]
        ndvi == Item(landsat_data, "ndvi_mean")[2]
        nddi == Item(landsat_data, "nddi_mean")[2]
        temp_factor == Max(0, RoundDiv(temperature - 25000, 20))
        veg_factor == Max(0, 1000 - ndvi)
        dust_factor == Max(0, nddi + 100)
        weighted == RoundDiv(4 * dust_factor + 3 * temp_factor + 3 * veg_factor, 10)
        dust_risk_index == Max(0, Min(1000, weighted))
        risk_level == IF dust_risk_index > 600 THEN "high"
                      ELSE IF dust_risk_index > 300 THEN "moderate"
                      ELSE "low"
    IN  Return(PyDict(<< <<PyStr("dust_risk_index"), PyFloat(dust_risk_index)>>,
                         <<PyStr("risk_level"), PyStr(risk_level)>>,
                         <<PyStr("temperature_factor"), PyFloat(temp_factor)>>,
                         <<PyStr("vegetation_factor"), PyFloat(veg_factor)>>,
                         <<PyStr("dust_factor"), PyFloat(dust_factor)>> >>))

\* a call of a wrapped method whose body does not touch the cache
Wrapped(c, ttl_minutes, func_name, args, kwargs, body, fault) ==
    wrapper(c, ttl_minutes, func_name, args, kwargs,
            Leaf(c, ttl_minutes, func_name, args, kwargs, body.raised, body.value),
            fault, 0)

get_modis_data(c, answer, start_date, end_date, fault) ==
    Wrapped(c, Some(30), "get_modis_data", <<Analyzer, start_date, end_date>>, <<>>,
            get_modis_data_func(answer), fault)

get_landsat_data(c, answer, start_date, end_date, fault) ==
    Wrapped(c, Some(60), "get_landsat_data", <<Analyzer, start_date, end_date>>, <<>>,
            get_landsat_data_func(answer), fault)

\* variant: the entry of the risk computation is keyed by the method alone
calculate_dust_risk_one_entry(c, modis_data, landsat_data, fault) ==
    Wrapped(c, Some(15), "calculate_dust_risk", <<Analyzer>>,
            <<>>, calculate_dust_risk_func(modis_data, landsat_data), fault)

calculate_dust_risk(c, modis_data, landsat_data, fault) ==
    Wrapped(c, Some(15), "calculate_dust_risk", <<Analyzer, modis_data, landsat_data>>,
            <<>>, calculate_dust_risk_func(modis_data, landsat_data), fault)

\* the calendar day of a time, and strftime('%Y-%m-%d') of a day
Day(t) == t \div (24 * 60 * 60)
DateText(day) == PyStr(ToString(day))

_assess_conditions(lst_day_mean, ndvi_mean, nddi_mean) ==
    [temperature_status |->
        IF lst_day_mean > 35000 THEN "High"
        ELSE IF lst_day_mean > 25000 THEN "Moderate" ELSE "Low",
     vegetation_status |->
        IF ndvi_mean < 200 THEN "Low vegetation"
        ELSE IF ndvi_mean < 400 THEN "Moderate vegetation"
        ELSE "Good vegetation cover",
     dust_signature_status |->
        IF nddi_mean > 150 THEN "Elevated dust signature detected"
        ELSE "Normal dust levels"]

\* one step of an orchestration, for its trace
Did(site, r) ==
    [site |-> site, how |-> r.how, invoked |-> r.invoked, raised |-> r.raised]

\* the failure envelope: {'error': ..., 'cache_stats': ...}
Failure(c, reason, trace) ==
    [c |-> c, raised |-> FALSE, error |-> TRUE, reason |-> reason, trace |-> trace,
     modis_data |-> PyNone, landsat_data |-> PyNone, risk_data |-> PyNone,
     status |-> _assess_conditions(0, 0, 0), cache_stats |-> get_stats(c)]

\* variant: the MODIS fetch is made before the try block is entered
get_current_conditions_fetches_before_try(c, answers, faults) ==
    LET end_str == DateText(Day(now))
        start_str == DateText(Day(now) - 60)
    IN
    Bind(get_modis_data(c, answers.modis, start_str, end_str, faults.modis), LAMBDA m :
    IF m.raised
    THEN [Failure(m.c, "get_modis_data", <<Did("get_modis_data", m)>>)
             EXCEPT !.raised = TRUE]
    ELSE
    Bind(get_landsat_data(m.c, answers.landsat, start_str, end_str, faults.landsat),
         LAMBDA l :
    IF l.raised
    THEN Failure(l.c, "get_landsat_data",
                 <<Did("get_modis_data", m), Did("get_landsat_data", l)>>)
    ELSE
    Bind(calculate_dust_risk(l.c, m.ret, l.ret, faults.risk), LAMBDA r :
    IF r.raised
    THEN Failure(r.c, "calculate_dust_risk",
                 <<Did("get_modis_data", m), Did("get_landsat_data", l),
                   Did("calculate_dust_risk", r)>>)
    ELSE [c |-> r.c, raised |-> FALSE, error |-> FALSE, reason |-> "",
          trace |-> <<Did("get_modis_data", m), Did("get_landsat_data", l),
                      Did("calculate_dust_risk", r)>>,
          modis_data |-> m.ret, landsat_data |-> l.ret, risk_data |-> r.ret,
          status |-> _assess_conditions(Item(m.ret, "lst_day_mean")[2],
                                        Item(l.ret, "ndvi_mean")[2],
                                        Item(l.ret, "nddi_mean")[2]),
          cache_stats |-> get_stats(r.c)])))

\* variant: both fetches are made before either result is looked at
get_current_conditions_fetches_both(c, answers, faults) ==
    LET end_str == DateText(Day(now))
        start_str == DateText(Day(now) - 60)
    IN
    Bind(get_modis_data(c, answers.modis, start_str, end_str, faults.modis), LAMBDA m :
    Bind(get_landsat_data(m.c, answers.landsat, start_str, end_str, faults.landsat),
         LAMBDA l :
    IF m.raised
    THEN Failure(l.c, "get_modis_data",
                 <<Did("get_modis_data", m), Did("get_landsat_data", l)>>)
    ELSE IF l.raised
    THEN Failure(l.c, "get_landsat_data",
                 <<Did("get_modis_data", m), Did("get_landsat_data", l)>>)
    ELSE
    Bind(calculate_dust_risk(l.c, m.ret, l.ret, faults.risk), LAMBDA r :
    IF r.raised
    THEN Failure(r.c, "calculate_dust_risk",
                 <<Did("get_modis_data", m), Did("get_landsat_data", l),
                   Did("calculate_dust_risk", r)>>)
    ELSE [c |-> r.c, raised |-> FALSE, error |-> FALSE, reason |-> "",
          trace |-> <<Did("get_modis_data", m), Did("get_landsat_data", l),
                      Did("calculate_dust_risk", r)>>,
          modis_data |-> m.ret, landsat_data |-> l.ret, risk_data |-> r.ret,
          status |-> _assess_conditions(Item(m.ret, "lst_day_mean")[2],
                                        Item(l.ret, "ndvi_mean")[2],
                                        Item(l.ret, "nddi_mean")[2]),
          cache_stats |-> get_stats(r.c)])))

\* get_current_conditions: the cache state it leaves and the envelope.
\* faults gives, for each wrapped call, the fault of the set it may make.
get_current_conditions(c, answers, faults) ==
    LET end_str == DateText(Day(now))
        start_str == DateText(Day(now) - 60)
    IN
    Bind(get_modis_data(c, answers.modis, start_str, end_str, faults.modis), LAMBDA m :
    IF m.raised THEN Failure(m.c, "get_modis_data", <<Did("get_modis_data", m)>>)
    ELSE
    Bind(get_landsat_data(m.c, answers.landsat, start_str, end_str, faults.landsat),
         LAMBDA l :
    IF l.raised
    THEN Failure(l.c, "get_landsat_data",
                 <<Did("get_modis_data", m), Did("get_landsat_data", l)>>)
    ELSE
    Bind(calculate_dust_risk(l.c, m.ret, l.ret, faults.risk), LAMBDA r :
    IF r.raised
    THEN Failure(r.c, "calculate_dust_risk",
                 <<Did("get_modis_data", m), Did("get_landsat_data", l),
                   Did("calculate_dust_risk", r)>>)
    ELSE [c |-> r.c, raised |-> FALSE, error |-> FALSE, reason |-> "",
          trace |-> <<Did("get_modis_data", m), Did("get_landsat_data", l),
                      Did("calculate_dust_risk", r)>>,
          modis_data |-> m.ret, landsat_data |-> l.ret, risk_data |-> r.ret,
          status |-> _assess_conditions(Item(m.ret, "lst_day_mean")[2],
                                        Item(l.ret, "ndvi_mean")[2],
                                        Item(l.ret, "nddi_mean")[2]),
          cache_stats |-> get_stats(r.c)])))

\* the calendar of the model: time 0 is 00:00 on Tuesday 1 July 2025, and the
\* tables cover the days a forecast made in the first week reaches
DayOfYear(day) == 182 + day
Month(day) == 7
WeekdayName(day) ==
    <<"Tuesday", "Wednesday", "Thursday", "Friday", "Saturday", "Sunday", "Monday">>[
        (day % 7) + 1]

WeekdayShort(day) == <<"Tue", "Wed", "Thu", "Fri", "Sat", "Sun", "Mon">>[(day % 7) + 1]

\* np.sin((day_of_year / 365) * 2 * np.pi) and np.sin((i / 7) * 2 * np.pi)
SinYear(day_of_year) ==
    <<9, -9, -26, -43, -60, -77, -95, -112, -129, -146, -163, -180, -197, -213>>[
        day_of_year - 181]
SinWeek(i) == <<0, 782, 975, 434, -434, -975, -782>>[(i % 7) + 1]

Clip(x, lo, hi) == Max(lo, Min(hi, x))

\* day i of a forecast; draws are the two np.random.random() values of the day
risk_score(i, base_risk, draws) ==
    LET date == Day(now) + i
        seasonal_factor == RoundDiv(SinYear(DayOfYear(date)) * 80, 1000)
        weekly_pattern == RoundDiv(SinWeek(i) * 50, 1000)
        random_variation == RoundDiv((draws[1] - 500) * (100 + i * 20), 1000)
        trend_factor == IF Month(date) \in {6, 7, 8, 9} THEN i * 10 ELSE i * 5
    IN  Clip(base_risk + seasonal_factor + weekly_pattern + random_variation
             + trend_factor, 50, 950)

\* variant: day 0 takes its confidence from the formula of days 1 and 2
forecast_day_no_first_day_case(i, base_risk, base_temp, rnd) ==
    LET date == Day(now) + i
        score == risk_score(i, base_risk, rnd[i + 1])
        risk_level == IF score > 650 THEN "high"
                      ELSE IF score > 350 THEN "moderate" ELSE "low"
        temp_seasonal == RoundDiv(SinYear(DayOfYear(date)) * 8000, 1000)
        temp_daily == RoundDiv((rnd[i + 1][2] - 500) * 5000, 1000)
        temp_trend == IF Month(date) \in {9, 10, 11} THEN -200 * i ELSE 100 * i
        temperature == Max(15000, Min(45000,
                            base_temp + temp_seasonal + temp_daily + temp_trend))
        confidence == Max(350,
                          IF i <= 2 THEN 850 - i * 50
                          ELSE IF i <= 4 THEN 750 - (i - 2) * 80
                          ELSE 590 - (i - 4) * 60)
        day_name == IF i = 0 THEN "Today"
                    ELSE IF i = 1 THEN "Tomorrow" ELSE WeekdayName(date)
        prev_risk == risk_score(i - 1, base_risk, rnd[i])
        tendency == IF i > 0
                    THEN IF score > prev_risk + 100 THEN "Increasing"
                         ELSE IF score < prev_risk - 100 THEN "Decreasing"
                         ELSE "Stable"
                    ELSE "Current"
    IN  PyDict(<< <<PyStr("date"), DateText(date)>>,
                  <<PyStr("day_name"), PyStr(day_name)>>,
                  <<PyStr("day_short"), PyStr(WeekdayShort(date))>>,
                  <<PyStr("risk_score"), PyFloat(score)>>,
                  <<PyStr("risk_level"), PyStr(risk_level)>>,
                  <<PyStr("temperature"), PyFloat(RoundDiv(temperature, 100) * 100)>>,
                  <<PyStr("confidence"), PyFloat(confidence)>>,
                  <<PyStr("tendency"), PyStr(tendency)>>,
                  <<PyStr("day_index"), PyInt(i)>> >>)

forecast_day(i, base_risk, base_temp, rnd) ==
    LET date == Day(now) + i
        score == risk_score(i, base_risk, rnd[i + 1])
        risk_level == IF score > 650 THEN "high"
                      ELSE IF score > 350 THEN "moderate" ELSE "low"
        temp_seasonal == RoundDiv(SinYear(DayOfYear(date)) * 8000, 1000)
        temp_daily == RoundDiv((rnd[i + 1][2] - 500) * 5000, 1000)
        temp_trend == IF Month(date) \in {9, 10, 11} THEN -200 * i ELSE 100 * i
        temperature == Max(15000, Min(45000,
                            base_temp + temp_seasonal + temp_daily + temp_trend))
        confidence == Max(350,
                          IF i = 0 THEN 950
                          ELSE IF i <= 2 THEN 850 - i * 50
                          ELSE IF i <= 4 THEN 750 - (i - 2) * 80
                          ELSE 590 - (i - 4) * 60)
        day_name == IF i = 0 THEN "Today"
                    ELSE IF i = 1 THEN "Tomorrow" ELSE WeekdayName(date)
        prev_risk == risk_score(i - 1, base_risk, rnd[i])
        tendency == IF i > 0
                    THEN IF score > prev_risk + 100 THEN "Increasing"
                         ELSE IF score < prev_risk - 100 THEN "Decreasing"
                         ELSE "Stable"
                    ELSE "Current"
    IN  PyDict(<< <<PyStr("date"), DateText(date)>>,
                  <<PyStr("day_name"), PyStr(day_name)>>,
                  <<PyStr("day_short"), PyStr(WeekdayShort(date))>>,
                  <<PyStr("risk_score"), PyFloat(score)>>,
                  <<PyStr("risk_level"), PyStr(risk_level)>>,
                  <<PyStr("temperature"), PyFloat(RoundDiv(temperature, 100) * 100)>>,
                  <<PyStr("confidence"), PyFloat(confidence)>>,
                  <<PyStr("tendency"), PyStr(tendency)>>,
                  <<PyStr("day_index"), PyInt(i)>> >>)

\* the loop of generate_forecast: one entry per i in range(days)
forecast(days, base_risk, base_temp, rnd) ==
    [j \in 1..days |-> forecast_day(j - 1, base_risk, base_temp, rnd)]

\* the body of generate_forecast, run from cache state c: [c, raised, value]
generate_forecast_func(c, answers, faults, days, rnd) ==
    Bind(get_current_conditions(c, answers, faults), LAMBDA current :
    IF current.error
    THEN [c |-> current.c, raised |-> FALSE,
          value |-> PyList(<<PyDict(<<
                       <<PyStr("error"), PyStr("Could not generate forecast")>>,
                       <<PyStr("reason"), PyStr(current.reason)>> >>)>>)]
    ELSE Bind(Item(current.risk_data, "dust_risk_index")[2], LAMBDA base_risk :
         Bind(Item(current.modis_data, "lst_day_mean")[2], LAMBDA base_temp :
             [c |-> current.c, raised |-> FALSE,
              value |-> PyList(forecast(days, base_risk, base_temp, rnd))])))

\* variant: the forecast entry lives as long as the MODIS entry
generate_forecast_ttl_of_fetch(c, answers, faults, days, rnd) ==
    LET kwargs == << <<"days", PyInt(days)>> >>
    IN  Bind(get(c, CallKey("generate_forecast", <<Analyzer>>, kwargs), Some(30)),
             LAMBDA looked :
                 wrapper(c, Some(30), "generate_forecast", <<Analyzer>>, kwargs,
                         generate_forecast_func(looked.c, answers, faults, days, rnd),
                         faults.forecast, 0))

\* analyzer.generate_forecast(days=...), as the forecast route calls it
generate_forecast(c, answers, faults, days, rnd) ==
    LET kwargs == << <<"days", PyInt(days)>> >>
    IN  Bind(get(c, CallKey("generate_forecast", <<Analyzer>>, kwargs), Some(120)),
             LAMBDA looked :
                 wrapper(c, Some(120), "generate_forecast", <<Analyzer>>, kwargs,
                         generate_forecast_func(looked.c, answers, faults, days, rnd),
                         faults.forecast, 0))

\* a forecast that reports a failure instead of days
IsFailureResult(value) ==
    /\ value[1] = "list"
    /\ Len(value[2]) >= 1
    /\ value[2][1][1] = "dict"
    /\ Has(value[2][1], "error")

----------------------------------------------------------------------------
(* State shared by the specifications *)

DefaultTtlMinutes == 30

Cache == [data |-> data_dir, metadata |-> metadata_dir, stats |-> stats]

NoKey == Md5(<<>>)

\* the record of an operation: its inputs, what it returned, the state before it
NoLast ==
    [op |-> "init", key |-> NoKey, ttl |-> None, data |-> PyNone, fault |-> "none",
     at |-> 0, ret |-> PyNone, how |-> "none", raised |-> FALSE, invoked |-> 0,
     sets |-> <<>>, cleared |-> 0, was_pending |-> FALSE,
     args |-> <<>>, op_raises |-> FALSE, got |-> PyNone, kept |-> TRUE,
     answers |-> [modis |-> ModisUp, landsat |-> LandsatUp], error |-> FALSE,
     trace |-> <<>>, kwargs |-> <<>>, reordered |-> <<>>, reordered_key |-> NoKey,
     existed |-> FALSE, files |-> 0, before_at |-> 0, status |-> 200,
     reason |-> "", draws |-> <<>>, modis_data |-> PyNone, landsat_data |-> PyNone,
     risk_data |-> PyNone,
     report |-> get_stats([data |-> <<>>, metadata |-> <<>>, stats |-> ZeroStats]),
     before |-> ZeroStats, before_data |-> <<>>, before_metadata |-> <<>>]

Started == [NoLast EXCEPT !.at = now, !.before = stats]

Step ==
    /\ ops < MaxOps
    /\ ops' = ops + 1
    /\ UNCHANGED threads

Install(c) ==
    /\ data_dir' = c.data
    /\ metadata_dir' = c.metadata
    /\ stats' = c.stats

Drop(f, keys) == [k \in DOMAIN f \ keys |-> f[k]]

Init ==
    /\ backend = [modis |-> ModisUp, landsat |-> LandsatUp]
    /\ now = 0
    /\ default_ttl = DefaultTtlMinutes * 60
    /\ data_dir = <<>>
    /\ metadata_dir = <<>>
    /\ stats = ZeroStats
    /\ last = NoLast
    /\ written = <<>>
    /\ pending = {}
    /\ ops = 0
    /\ threads = <<>>

Tick ==
    /\ now < MaxTicks * TickSeconds
    /\ now' = now + TickSeconds
    /\ UNCHANGED <<backend, default_ttl, data_dir, metadata_dir, stats, last, written, pending, ops,
                   threads>>

----------------------------------------------------------------------------
(* The store on its own: get, set and clear_expired called with any key,   *)
(* payload and TTL                                                         *)

Keys == {CallKey("op", <<PyInt(1)>>, <<>>), CallKey("op", <<PyInt(2)>>, <<>>)}

Nested == PyDict(<< <<PyStr("a"), PyDict(<< <<PyStr("b"), PyInt(1)>> >>)>> >>)

Payloads == {PyNone, PyInt(7), PyList(<<PyInt(1), PyInt(2)>>), Nested}

Ttls == {None, Some(15), Some(45)}   \* the default, a shorter and a longer one

Get(k, ttl) ==
    /\ Step
    /\ \E r \in {get(Cache, k, ttl)} :
           /\ Install(r.c)
           /\ last' = [Started EXCEPT !.op = "get", !.key = k, !.ttl = ttl,
                                      !.ret = r.ret, !.how = r.how,
                                      !.before_data = data_dir,
                                      !.before_metadata = metadata_dir]
    /\ UNCHANGED <<backend, now, default_ttl, written, pending>>

Set(k, v, fault, cut) ==
    /\ Step
    /\ Install(set(Cache, k, v, fault, cut))
    /\ LET name == get_cache_path(k, "data").name
       IN  last' = [Started EXCEPT
                       !.op = "set", !.key = k, !.data = v, !.fault = fault,
                       !.existed = (name \in DOMAIN data_dir),
                       !.files = Cardinality(DOMAIN data_dir),
                       !.before_at = IF name \in DOMAIN data_dir
                                     THEN data_dir[name].mtime ELSE 0]
    /\ written' = IF fault = "none"
                  THEN [j \in DOMAIN written \cup {k} |->
                            IF j = k THEN [data |-> v, at |-> now] ELSE written[j]]
                  ELSE IF fault = "open_data" THEN written
                  ELSE Drop(written, {k})
    /\ pending' = IF fault = "none" THEN pending \ {k} ELSE pending \cup {k}
    /\ UNCHANGED <<backend, now, default_ttl>>

ClearExpired ==
    /\ Step
    /\ \E r \in {clear_expired(Cache)} :
           /\ Install(r.c)
           /\ last' = [Started EXCEPT !.op = "clear_expired", !.cleared = r.cleared,
                                      !.before_data = data_dir,
                                      !.before_metadata = metadata_dir]
           /\ written' = [k \in DOMAIN written \cap
                                {n.stem : n \in DOMAIN r.c.data} |-> written[k]]
    /\ UNCHANGED <<backend, now, default_ttl, pending>>

\* GET /api/cache/stats
GetCacheStats ==
    /\ Step
    /\ last' = [Started EXCEPT !.op = "stats", !.report = get_stats(Cache)]
    /\ UNCHANGED <<backend, now, default_ttl, data_dir, metadata_dir, stats, written,
                   pending>>

\* POST /api/cache/clear
ClearCache(fault) ==
    /\ Step
    /\ \E r \in {clear_cache(Cache, fault)} :
           /\ Install(r.c)
           /\ last' = [Started EXCEPT !.op = "clear_cache", !.fault = fault,
                                      !.cleared = r.cleared_files,
                                      !.status = r.status,
                                      !.before_data = data_dir,
                                      !.before_metadata = metadata_dir]
           /\ written' = [k \in DOMAIN written \cap
                                {n.stem : n \in DOMAIN r.c.data} |-> written[k]]
    /\ UNCHANGED <<backend, now, default_ttl, pending>>

StoreNext ==
    \/ \E k \in Keys, ttl \in Ttls : Get(k, ttl)
    \/ \E k \in Keys, v \in Payloads : Set(k, v, "none", 0)
    \/ ClearExpired
    \/ GetCacheStats
    \/ \E fault \in ClearFaults : ClearCache(fault)
    \/ Tick

SpecStore == Init /\ [][StoreNext]_vars

(* C5: TTL boundary.  If set(k, v) completed at t0 and k was neither        *)
(* rewritten nor removed since, a get(k, T) with T > 0 minutes at time t    *)
(* returns v and counts a hit when t - t0 < T, and returns absent and       *)
(* counts a miss when t - t0 >= T.                                          *)
C5_TtlBoundary ==
    (last.op = "get" /\ Truthy(last.ttl) /\ last.key \in DOMAIN written) =>
        LET w == written[last.key]
        IN  IF last.at - w.at < last.ttl[1] * 60
            THEN /\ last.ret = w.data
                 /\ stats = [last.before EXCEPT !.hits = @ + 1]
            ELSE /\ last.ret = PyNone
                 /\ stats = [last.before EXCEPT !.misses = @ + 1]

\* a get at an age equal to the TTL, which misses
C5_Witness ==
    /\ last.op = "get" /\ Truthy(last.ttl) /\ last.key \in DOMAIN written
    /\ last.at - written[last.key].at = last.ttl[1] * 60
    /\ last.how = "miss"

(* C6: round trip.  A set(k, v) followed at once by get(k) with the default *)
(* TTL returns a value equal to v, and the get is counted as a hit.         *)
C6_RoundTrip ==
    (/\ last.op = "get" /\ last.ttl = None
     /\ last.key \in DOMAIN written
     /\ written[last.key].at = last.at) =>
        /\ last.ret = written[last.key].data
        /\ stats = [last.before EXCEPT !.hits = @ + 1]

\* the nested mapping read back right after it was set
C6_Witness ==
    /\ last.op = "get" /\ last.ttl = None /\ last.key \in DOMAIN written
    /\ written[last.key].at = last.at
    /\ written[last.key].data = Nested
    /\ last.ret = Nested

(* C10: clear_expired, run at time t without an I/O failure, removes the    *)
(* payload and metadata records of exactly the entries whose age at t is    *)
(* >= the store-default TTL, leaves the others as they were, and returns    *)
(* the number of entries removed.                                           *)
C10_ClearExpired ==
    (last.op = "clear_expired") =>
        LET old == last.before_data
            gone == {n \in DOMAIN old : last.at - old[n].mtime >= default_ttl}
        IN  /\ data_dir = [n \in DOMAIN old \ gone |-> old[n]]
            /\ metadata_dir = [n \in DOMAIN last.before_metadata \ gone |->
                                   last.before_metadata[n]]
            /\ last.cleared = Cardinality(gone)

\* a sweep that removed one entry and kept another
C10_Witness ==
    /\ last.op = "clear_expired"
    /\ last.cleared = 1
    /\ Cardinality(DOMAIN last.before_data) = 2
    /\ Cardinality(DOMAIN data_dir) = 1
    /\ Cardinality(DOMAIN metadata_dir) = 1

\* the per-call TTLs, in minutes, that C18 and C19 read with
ReadTtls == {15, 30, 45}

(* C18: validity is decided by the reader and get never changes the store. *)
(* A get leaves the payload and metadata records as they were; for an      *)
(* entry of age a and TTLs T1 <= a < T2, get(k, T1) misses and get(k, T2)  *)
(* at the same time, before or after it, hits and returns the payload.     *)
C18_ReaderDecides ==
    /\ (last.op = "get") =>
           (data_dir = last.before_data /\ metadata_dir = last.before_metadata)
    /\ \A k \in DOMAIN written, T1 \in ReadTtls, T2 \in ReadTtls :
           LET age == now - written[k].at
               short == get(Cache, k, Some(T1))
               long == get(Cache, k, Some(T2))
               long_after == get(short.c, k, Some(T2))
               short_after == get(long.c, k, Some(T1))
           IN  (T1 * 60 <= age /\ age < T2 * 60) =>
                  /\ short.how = "miss" /\ short.ret = PyNone
                  /\ short.c.data = data_dir /\ short.c.metadata = metadata_dir
                  /\ long.how = "hit" /\ long.ret = written[k].data
                  /\ long_after.how = "hit" /\ long_after.ret = written[k].data
                  /\ short_after.how = "miss"

\* a get that missed under the short TTL an entry the long TTL still serves
C18_Witness ==
    /\ last.op = "get" /\ last.ttl = Some(15) /\ last.how = "miss"
    /\ last.key \in DOMAIN written
    /\ last.at - written[last.key].at >= 15 * 60
    /\ now = last.at
    /\ get(Cache, last.key, Some(45)).how = "hit"

(* C19: an overwrite restarts the age of the entry.  A successful set on a *)
(* key that holds an entry replaces the payload and sets stored_at to the  *)
(* time of the write: a get(k, T) less than T after it returns the new     *)
(* payload, also when the old entry was expired, and k has one entry.      *)
C19_OverwriteRestartsAge ==
    (last.op = "set" /\ last.fault = "none" /\ last.existed) =>
        LET name == get_cache_path(last.key, "data").name
        IN  /\ Cardinality(DOMAIN data_dir) = last.files
            /\ name \in DOMAIN data_dir
            /\ data_dir[name].mtime = last.at
            /\ \A T \in ReadTtls :
                   (now - last.at < T * 60) =>
                       LET r == get(Cache, last.key, Some(T))
                       IN  r.how = "hit" /\ r.ret = last.data

\* an entry expired under 15 minutes is overwritten and, later, still fresh
C19_Witness ==
    /\ last.op = "set" /\ last.fault = "none" /\ last.existed
    /\ last.at - last.before_at >= 15 * 60
    /\ now > last.at
    /\ now - last.at < 30 * 60
    /\ get(Cache, last.key, Some(30)).ret = last.data

Counters == {"hits", "misses", "saves", "errors"}

\* a step that completes the clear-cache operation
ClearCacheStep == last'.op = "clear_cache" /\ last'.status = 200 /\ ops' = ops + 1

----------------------------------------------------------------------------
(* The store with failing writes, on one key *)

FaultKey == CallKey("op", <<PyInt(1)>>, <<>>)

FaultPayloads == {PyInt(7), Nested}

FaultNext ==
    \/ \E ttl \in {None, Some(15)} : Get(FaultKey, ttl)
    \/ \E v \in FaultPayloads :
         \/ Set(FaultKey, v, "none", 0)
         \/ \E fault \in SetFaults \ {"none", "dump"} : Set(FaultKey, v, fault, 0)
         \/ \E cut \in Cuts(v) : Set(FaultKey, v, "dump", cut)
    \/ Tick

SpecFault == Init /\ [][FaultNext]_vars

(* C7: a read failure is fail-open.  When the entry for k exists and is     *)
(* fresh but its payload cannot be deserialized, get(k, ttl) returns absent *)
(* as a miss does, adds 1 to errors and leaves hits (and misses) unchanged. *)
C7_ReadFailOpen ==
    LET path == get_cache_path(last.key, "data")
        ttl == IF Truthy(last.ttl) THEN last.ttl[1] * 60 ELSE default_ttl
    IN  (/\ last.op = "get"
         /\ path.name \in DOMAIN data_dir
         /\ last.at - data_dir[path.name].mtime < ttl
         /\ ~PickleLoad(data_dir[path.name].bytes).ok) =>
            /\ last.ret = PyNone
            /\ ~last.raised
            /\ stats = [last.before EXCEPT !.errors = @ + 1]

\* a get of a fresh entry whose file holds a truncated stream
C7_Witness ==
    LET path == get_cache_path(last.key, "data")
    IN  /\ last.op = "get"
        /\ path.name \in DOMAIN data_dir
        /\ last.at - data_dir[path.name].mtime < default_ttl
        /\ data_dir[path.name].bytes # <<>>
        /\ ~PickleLoad(data_dir[path.name].bytes).ok
        /\ last.how = "error"

(* C8: a write failure is swallowed.  A set that fails at any step adds 1   *)
(* to errors and leaves saves unchanged; a set that completes every step    *)
(* adds 1 to saves and leaves errors unchanged.  Neither raises.            *)
C8_WriteSwallowed ==
    (last.op = "set") =>
        /\ ~last.raised
        /\ IF last.fault = "none"
           THEN stats = [last.before EXCEPT !.saves = @ + 1]
           ELSE stats = [last.before EXCEPT !.errors = @ + 1]

\* a set that failed while writing the metadata record
C8_Witness ==
    /\ last.op = "set"
    /\ last.fault = "dump_metadata"
    /\ stats.errors = last.before.errors + 1

(* C20: after a failed write the key degrades to always-miss.  If          *)
(* set(k, v) fails at any step, every get(k, ttl) returns absent until a    *)
(* later set(k, .) succeeds.                                                *)
C20_AlwaysMissAfterFailedWrite ==
    (last.op = "get" /\ last.key \in pending) => last.ret = PyNone

----------------------------------------------------------------------------
(* The memoizing wrapper around an operation "op" that returns any payload  *)
(* or raises, as chosen by its caller's environment                         *)

WrapTtl == Some(15)

WrapArgs == {<<PyInt(1)>>, <<PyInt(2)>>}

\* None, a value that is false without being None, an ordinary value
WrapPayloads == {PyNone, PyList(<<>>), PyInt(7)}

\* a write that succeeds, and one that fails leaving a torn payload
WrapFaults == {"none", "dump"}

\* history of complete sets, after the sets a call made with the given fault
Record(w, sets, fault) ==
    IF sets = <<>> \/ fault = "open_data" THEN w
    ELSE IF fault = "none"
    THEN [j \in DOMAIN w \cup {sets[1].key} |->
              IF j = sets[1].key THEN [data |-> sets[1].data, at |-> now] ELSE w[j]]
    ELSE Drop(w, {sets[1].key})

Call(args, raises, value, fault, cut) ==
    /\ Step
    /\ \E r \in {wrapper(Cache, WrapTtl, "op", args, <<>>,
                            Leaf(Cache, WrapTtl, "op", args, <<>>, raises, value),
                            fault, cut)},
          k \in {CallKey("op", args, <<>>)} :
           /\ Install(r.c)
           /\ last' = [Started EXCEPT
                          !.op = "call", !.key = k, !.ttl = WrapTtl, !.args = args,
                          !.data = value, !.op_raises = raises, !.fault = fault,
                          !.ret = r.ret, !.raised = r.raised, !.how = r.how,
                          !.got = r.got, !.invoked = r.invoked, !.sets = r.sets,
                          !.was_pending = (k \in pending),
                          !.kept = (r.c.data = data_dir /\ r.c.metadata = metadata_dir)]
           /\ pending' = IF r.raised THEN pending \cup {k} ELSE pending \ {k}
           /\ written' = Record(written, r.sets, fault)
    /\ UNCHANGED <<backend, now, default_ttl>>

WrapNext ==
    \/ \E args \in WrapArgs : Call(args, TRUE, PyNone, "none", 0)
    \/ \E args \in WrapArgs, v \in WrapPayloads :
         \E fault \in WrapFaults : Call(args, FALSE, v, fault, 0)
    \/ Tick

SpecWrap == Init /\ [][WrapNext]_vars

(* C1: hit path of the wrapper.  Whenever the lookup hits, the wrapper     *)
(* returns the stored payload and op is not invoked in that call, for       *)
(* every stored payload, None included.                                     *)
C1_HitServesCache ==
    (last.op = "call" /\ last.how = "hit") =>
        /\ last.invoked = 0
        /\ last.ret = last.got
        /\ last.sets = <<>>

(* C2: miss path of the wrapper.  When the lookup returns absent, op is     *)
(* invoked exactly once with the caller's arguments; if it succeeds with r, *)
(* the wrapper calls set(key, r) with the key it looked up and returns r,   *)
(* whether or not the write succeeds.                                       *)
C2_MissComputes ==
    (last.op = "call" /\ last.got = PyNone) =>
        /\ last.invoked = 1
        /\ ~last.op_raises =>
              /\ last.sets = <<[key |-> CallKey("op", last.args, <<>>),
                                data |-> last.data]>>
              /\ last.ret = last.data
              /\ ~last.raised

\* a miss whose result was returned although the write failed
C2_Witness ==
    /\ last.op = "call" /\ last.how = "miss" /\ ~last.op_raises
    /\ last.fault = "dump"
    /\ last.data = PyInt(7)
    /\ last.ret = PyInt(7)
    /\ stats.errors = last.before.errors + 1

(* C3: failure path of the wrapper.  When op raises there is no set: the    *)
(* store and the saves counter are as they were before op was invoked, the  *)
(* failure reaches the caller, and the next call with the same arguments    *)
(* invokes op again.                                                        *)
C3_FailureNotCached ==
    /\ (last.op = "call" /\ last.invoked = 1 /\ last.op_raises) =>
          /\ last.sets = <<>>
          /\ last.kept
          /\ stats.saves = last.before.saves
          /\ last.raised
    /\ (last.op = "call" /\ last.was_pending) => last.invoked = 1

\* a call that follows a failed call with the same arguments and computes
C3_Witness ==
    /\ last.op = "call" /\ last.was_pending
    /\ last.invoked = 1 /\ ~last.op_raises
    /\ last.ret = PyInt(7)

----------------------------------------------------------------------------
(* The key of a call whose keyword arguments are supplied in two orders *)

KeyNames == {"get_modis_data", "generate_forecast"}
KeyArgs == {<<>>, <<Analyzer>>, <<Analyzer, PyStr("0"), PyInt(7)>>}
KeyKeywords == {"days", "days_back", "start_date"}
KeyValues == {PyInt(7), PyStr("0")}

\* the orders in which a set of keyword pairs can be supplied
Orders(pairs) ==
    {s \in [1..Cardinality(pairs) -> pairs] :
        \A i, j \in 1..Cardinality(pairs) : i # j => s[i] # s[j]}

\* the ways of supplying keyword arguments: every order of every assignment
\* of values to some of the keywords
Supplied ==
    UNION {UNION {Orders({<<w, f[w]>> : w \in W}) : f \in [W -> KeyValues]} :
           W \in SUBSET KeyKeywords}

Pairs(kwargs) == {kwargs[i] : i \in 1..Len(kwargs)}

\* the calls to compare: one operation, one tuple of positional arguments, the
\* same keyword pairs in two orders
KeyInit ==
    /\ backend = [modis |-> ModisUp, landsat |-> LandsatUp]
    /\ now = 0
    /\ default_ttl = DefaultTtlMinutes * 60
    /\ data_dir = <<>>
    /\ metadata_dir = <<>>
    /\ stats = ZeroStats
    /\ written = <<>>
    /\ pending = {}
    /\ ops = 0
    /\ threads = <<>>
    /\ \E name \in KeyNames, args \in KeyArgs, kwargs \in Supplied :
          \E reordered \in Orders(Pairs(kwargs)) :
              last = [NoLast EXCEPT !.op = "call", !.args = <<PyStr(name)>> \o args,
                                    !.kwargs = kwargs, !.reordered = reordered]

Fingerprint ==
    /\ last.op = "call"
    /\ last' = [last EXCEPT !.op = "key",
                            !.key = generate_cache_key(last.args, last.kwargs),
                            !.reordered_key = generate_cache_key(last.args, last.reordered)]
    /\ UNCHANGED <<backend, now, default_ttl, data_dir, metadata_dir, stats, written,
                   pending, ops,
                   threads>>

KeyNext == Fingerprint

SpecKey == KeyInit /\ [][KeyNext]_vars

(* C9: the key is a function of the operation name, the positional         *)
(* arguments in order and the set of keyword pairs: two calls that differ  *)
(* only in the order of their keyword arguments get the same key           *)
C9_KeyDeterminism ==
    last.op = "key" => last.key = last.reordered_key

C9_Witness ==
    /\ last.op = "key"
    /\ Len(last.kwargs) = 3
    /\ last.kwargs # last.reordered
    /\ last.key = last.reordered_key

----------------------------------------------------------------------------
(* get_stats after any number of hits, misses and read errors *)

\* the most hits, and the most misses, counted before the report
MaxCount == 16

StatsInit ==
    /\ backend = [modis |-> ModisUp, landsat |-> LandsatUp]
    /\ now = 0
    /\ default_ttl = DefaultTtlMinutes * 60
    /\ data_dir = <<>>
    /\ metadata_dir = <<>>
    /\ \E hits \in 0..MaxCount, misses \in 0..MaxCount, errors \in 0..1 :
          stats = [hits |-> hits, misses |-> misses, saves |-> 0, errors |-> errors]
    /\ last = NoLast
    /\ written = <<>>
    /\ pending = {}
    /\ ops = 0
    /\ threads = <<>>

Stats ==
    /\ last.op = "init"
    /\ last' = [Started EXCEPT !.op = "stats", !.report = get_stats(Cache)]
    /\ UNCHANGED <<backend, now, default_ttl, data_dir, metadata_dir, stats, written,
                   pending, ops,
                   threads>>

StatsNext == Stats

SpecStats == StatsInit /\ [][StatsNext]_vars

(* C11: hit-rate accounting.  stats() reports total_requests = hits +      *)
(* misses (read errors are not counted), hit_rate = 0 when that is 0 and   *)
(* otherwise hits / (hits + misses) * 100 rounded to one decimal (a tie to *)
(* the even digit, as round() does); hit_rate is between 0 and 100.        *)
C11_HitRate ==
    (last.op = "stats") =>
        LET total == stats.hits + stats.misses
            rate == last.report.hit_rate_percent      \* in tenths of a percent
            off == rate * total - 1000 * stats.hits
        IN  /\ last.report.total_requests = total
            /\ (total = 0) => (rate = 0)
            /\ (total > 0) =>
                   /\ 2 * off <= total /\ 2 * off >= 0 - total
                   /\ (2 * off = total \/ 2 * off = 0 - total) => (rate % 2 = 0)
            /\ rate >= 0 /\ rate <= 1000

\* one hit in sixteen requests, and a read error: 6.25 is reported as 6.2
C11_Witness ==
    /\ last.op = "stats"
    /\ stats.hits = 1 /\ stats.misses = 15 /\ stats.errors = 1
    /\ last.report.hit_rate_percent = 62
    /\ last.report.total_requests = 16

----------------------------------------------------------------------------
(* The forecast loop on its own: any day count, base risk, base            *)
(* temperature, draws and starting date                                    *)

DayCounts == {1, 2, 7}

\* dust_risk_index and lst_day_mean of the current conditions
BaseRisks == {0, 465, 1000}
BaseTemps == {10000, 30000, 50000}

\* the two np.random.random() values of a day
DayDraws == {<<0, 0>>, <<999, 0>>, <<500, 999>>}

\* the days, from 1 July, on which the forecast is made
StartDays == 0..7

LoopInit ==
    /\ backend = [modis |-> ModisUp, landsat |-> LandsatUp]
    /\ \E day \in StartDays : now = day * 24 * 60 * 60
    /\ default_ttl = DefaultTtlMinutes * 60
    /\ data_dir = <<>>
    /\ metadata_dir = <<>>
    /\ stats = ZeroStats
    /\ \E days \in DayCounts, base_risk \in BaseRisks, base_temp \in BaseTemps,
          first \in DayDraws, second \in DayDraws, later \in DayDraws :
          last = [NoLast EXCEPT
                     !.op = "call",
                     !.args = <<PyInt(days), PyFloat(base_risk), PyFloat(base_temp)>>,
                     !.draws = [i \in 1..days |-> IF i = 1 THEN first
                                                  ELSE IF i = 2 THEN second
                                                  ELSE later]]
    /\ written = <<>>
    /\ pending = {}
    /\ ops = 0
    /\ threads = <<>>

Loop ==
    /\ last.op = "call"
    /\ last' = [last EXCEPT !.op = "forecast", !.at = now, !.how = "computed",
                            !.ret = PyList(forecast(last.args[1][2], last.args[2][2],
                                                    last.args[3][2], last.draws))]
    /\ UNCHANGED <<backend, now, default_ttl, data_dir, metadata_dir, stats, written,
                   pending, ops,
                   threads>>

LoopNext == Loop

SpecLoop == LoopInit /\ [][LoopNext]_vars

(* C16: the first entry of a computed forecast of at least one day has     *)
(* day_name "Today", confidence 0.95 and tendency "Current", whatever the  *)
(* base risk, base temperature, draws and date; the second entry of a      *)
(* forecast of at least two days has day_name "Tomorrow" and a tendency    *)
(* among Increasing, Decreasing and Stable.                                *)
C16_FirstDays ==
    (last.op = "forecast" /\ last.how = "computed") =>
        LET entries == last.ret[2]
        IN  /\ Len(entries) >= 1
            /\ Item(entries[1], "day_name") = PyStr("Today")
            /\ Item(entries[1], "confidence") = PyFloat(950)
            /\ Item(entries[1], "tendency") = PyStr("Current")
            /\ Len(entries) >= 2 =>
                   /\ Item(entries[2], "day_name") = PyStr("Tomorrow")
                   /\ Item(entries[2], "tendency") \in
                          {PyStr("Increasing"), PyStr("Decreasing"), PyStr("Stable")}

\* a week's forecast made on a later day whose risk rises from day 0 to day 1
C16_Witness ==
    /\ last.op = "forecast" /\ last.how = "computed"
    /\ Len(last.ret[2]) = 7
    /\ now > 0
    /\ Item(last.ret[2][1], "tendency") = PyStr("Current")
    /\ Item(last.ret[2][2], "tendency") = PyStr("Increasing")

----------------------------------------------------------------------------
(* The risk computation on its own: any temperature, NDVI and NDDI.  The   *)
(* model keeps floats to the thousandth, so a quotient is the nearest      *)
(* thousandth.                                                             *)

Temperatures == {-5000, 20000, 25000, 25010, 30000, 35000, 45000, 65000}
Ndvis == {-200, 0, 100, 300, 1000, 1200}
Nddis == {-300, -100, 0, 200, 500, 1500}

RiskInit ==
    /\ backend = [modis |-> ModisUp, landsat |-> LandsatUp]
    /\ now = 0
    /\ default_ttl = DefaultTtlMinutes * 60
    /\ data_dir = <<>>
    /\ metadata_dir = <<>>
    /\ stats = ZeroStats
    /\ \E temperature \in Temperatures, ndvi \in Ndvis, nddi \in Nddis :
          last = [NoLast EXCEPT
                     !.op = "call",
                     !.modis_data =
                         PyDict(<< <<PyStr("lst_day_mean"), PyFloat(temperature)>> >>),
                     !.landsat_data =
                         PyDict(<< <<PyStr("ndvi_mean"), PyFloat(ndvi)>>,
                                   <<PyStr("nddi_mean"), PyFloat(nddi)>> >>)]
    /\ written = <<>>
    /\ pending = {}
    /\ ops = 0
    /\ threads = <<>>

Risk ==
    /\ last.op = "call"
    /\ \E r \in {calculate_dust_risk_func(last.modis_data, last.landsat_data)} :
           last' = [last EXCEPT !.op = "risk", !.raised = r.raised,
                                !.risk_data = r.value]
    /\ UNCHANGED <<backend, now, default_ttl, data_dir, metadata_dir, stats, written,
                   pending, ops,
                   threads>>

RiskNext == Risk

SpecRisk == RiskInit /\ [][RiskNext]_vars

\* |a - b| <= tolerance
Near(a, b, tolerance) == a - b <= tolerance /\ b - a <= tolerance

(* C17: for all temperatures, NDVI and NDDI values the risk computation    *)
(* returns temp_factor = max(0, (temperature - 25) / 20), veg_factor =     *)
(* max(0, 1 - ndvi), dust_factor = max(0, nddi + 0.1) and index =          *)
(* clamp(0.4 dust_factor + 0.3 temp_factor + 0.3 veg_factor, 0, 1), so     *)
(* 0 <= index <= 1; the level is high iff index > 0.6, moderate iff        *)
(* 0.3 < index <= 0.6 and low iff index <= 0.3.  Temperature 30, NDVI 0.1 *)
(* and NDDI 0.2 give index 0.465 and level moderate.                       *)
C17_RiskResult ==
    last.op = "risk" =>
        LET temperature == Item(last.modis_data, "lst_day_mean")[2]
            ndvi == Item(last.landsat_data, "ndvi_mean")[2]
            nddi == Item(last.landsat_data, "nddi_mean")[2]
            temp_factor == Item(last.risk_data, "temperature_factor")[2]
            veg_factor == Item(last.risk_data, "vegetation_factor")[2]
            dust_factor == Item(last.risk_data, "dust_factor")[2]
            index == Item(last.risk_data, "dust_risk_index")[2]
            level == Item(last.risk_data, "risk_level")[2]
            sum == 4 * dust_factor + 3 * temp_factor + 3 * veg_factor
        IN  /\ ~last.raised
            /\ Near(20 * temp_factor,
                    IF temperature > 25000 THEN temperature - 25000 ELSE 0, 10)
            /\ veg_factor = (IF ndvi < 1000 THEN 1000 - ndvi ELSE 0)
            /\ dust_factor = (IF nddi > -100 THEN nddi + 100 ELSE 0)
            /\ Near(10 * index,
                    IF sum > 10000 THEN 10000 ELSE IF sum < 0 THEN 0 ELSE sum, 5)
            /\ 0 <= index /\ index <= 1000
            /\ (level = "high") = (index > 600)
            /\ (level = "moderate") = (300 < index /\ index <= 600)
            /\ (level = "low") = (index <= 300)
            \* the example: temperature 30, NDVI 0.1, NDDI 0.2
            /\ (temperature = 30000 /\ ndvi = 100 /\ nddi = 200) =>
                   (index = 465 /\ level = "moderate")

\* temperature 35, NDVI 0.3 and NDDI 0.5 give an index of exactly 0.6:
\* the level is moderate
C17_Witness ==
    /\ last.op = "risk"
    /\ Item(last.modis_data, "lst_day_mean") = PyFloat(35000)
    /\ Item(last.landsat_data, "ndvi_mean") = PyFloat(300)
    /\ Item(last.landsat_data, "nddi_mean") = PyFloat(500)
    /\ Item(last.risk_data, "dust_risk_index") = PyFloat(600)
    /\ Item(last.risk_data, "risk_level") = PyStr("moderate")

----------------------------------------------------------------------------
(* The counters over lookups, saves and wrapped calls on one key, run one  *)
(* after the other                                                         *)

CountNext ==
    \/ Get(FaultKey, WrapTtl)
    \/ \E fault \in SetFaults : Set(FaultKey, PyInt(7), fault, 0)
    \/ Call(<<PyInt(1)>>, TRUE, PyNone, "none", 0)
    \/ \E v \in {PyNone, PyInt(7)}, fault \in WrapFaults :
         Call(<<PyInt(1)>>, FALSE, v, fault, 0)
    \/ Tick

SpecCount == Init /\ [][CountNext]_vars

\* what the step added to a counter
Added(counter) == stats'[counter] - stats[counter]

\* the step added 1 to one counter of the set and nothing to any other counter
OneOf(counters) ==
    /\ \E counter \in counters : Added(counter) = 1
    /\ Added("hits") + Added("misses") + Added("saves") + Added("errors") = 1

\* a get, a set or a wrapped call was made
Made(op) == ops' = ops + 1 /\ last'.op = op

(* C28: in sequential execution every get adds 1 to exactly one of hits,   *)
(* misses, errors and nothing to any other counter, every set adds 1 to    *)
(* exactly one of saves, errors and nothing to any other counter, so that  *)
(* the sum of the four counters grows by the number of get and set calls   *)
(* made; every wrapped call makes exactly one get and at most one set.     *)
C28_ExactlyOne ==
    [][/\ Made("get") =>
              /\ OneOf({"hits", "misses", "errors"})
              /\ Added(IF last'.how = "hit" THEN "hits"
                       ELSE IF last'.how = "miss" THEN "misses" ELSE "errors") = 1
       /\ Made("set") => OneOf({"saves", "errors"})
       /\ Made("call") =>
              /\ Len(last'.sets) <= 1
              /\ Len(last'.sets) = 1 <=> (last'.got = PyNone /\ ~last'.raised)
              /\ Added("hits") = (IF last'.how = "hit" THEN 1 ELSE 0)
              /\ Added("misses") = (IF last'.how = "miss" THEN 1 ELSE 0)
              /\ Added("saves") + Added("errors")
                    = (IF last'.how = "error" THEN 1 ELSE 0) + Len(last'.sets)
              /\ Added("saves") <= Len(last'.sets)
       /\ \A counter \in DOMAIN stats : Added(counter) >= 0
      ]_vars

\* a wrapped call whose lookup fails on a torn payload and whose save fails
\* too: two errors, one for the get and one for the set
C28_Witness ==
    /\ last.op = "call"
    /\ last.how = "error"
    /\ Len(last.sets) = 1
    /\ last.fault = "dump"
    /\ stats.errors = last.before.errors + 2
    /\ stats.hits + stats.misses + stats.saves = 1

----------------------------------------------------------------------------
(* Concurrent requests.  The server answers each request on a thread of    *)
(* its own; two threads call the same wrapped operation with the same      *)
(* arguments.  A thread's call is cut into the steps between which the     *)
(* other thread can run: the lookup, the read and the write of             *)
(* self.stats[counter] += 1, the invocation of func, and in set the write  *)
(* of the payload file, os.path.getsize and the write of the metadata      *)
(* file.  Nothing in the code orders the steps of two threads.             *)

ThreadIds == {1, 2}

\* what func returns to a thread
ThreadResults == {PyInt(7), PyList(<<PyInt(1), PyInt(2)>>)}

ThreadKey == CallKey("op", <<PyInt(1)>>, <<>>)

\* a thread before its call
NoThread(value) ==
    [pc |-> "get", value |-> value, got |-> PyNone, counter |-> "", reg |-> 0,
     then |-> "", size |-> 0, ret |-> PyNone, invoked |-> 0, gets |-> 0, sets |-> 0]

ThreadInit ==
    /\ backend = [modis |-> ModisUp, landsat |-> LandsatUp]
    /\ now = 0
    /\ default_ttl = DefaultTtlMinutes * 60
    /\ data_dir = <<>>
    /\ metadata_dir = <<>>
    /\ stats = ZeroStats
    /\ last = NoLast
    /\ written = <<>>
    /\ pending = {}
    /\ ops = 0
    /\ \E values \in [ThreadIds -> ThreadResults] :
          threads = [t \in ThreadIds |-> NoThread(values[t])]

\* the thread moves on and the store is as it was
Moves(t, thread) ==
    /\ threads' = [threads EXCEPT ![t] = thread]
    /\ UNCHANGED <<backend, now, default_ttl, last, written, pending, ops>>

\* get up to the counter: is_cache_valid, open and pickle.load
Lookup(t) ==
    /\ threads[t].pc = "get"
    /\ \E r \in {get(Cache, ThreadKey, WrapTtl)} :
           Moves(t, [threads[t] EXCEPT
                        !.pc = "load", !.got = r.ret,
                        !.counter = IF r.how = "hit" THEN "hits"
                                    ELSE IF r.how = "miss" THEN "misses" ELSE "errors",
                        !.then = IF r.ret # PyNone THEN "return" ELSE "func",
                        !.gets = @ + 1])
    /\ UNCHANGED <<data_dir, metadata_dir, stats>>

\* self.stats[counter] += 1: the value is read ...
Load(t) ==
    /\ threads[t].pc = "load"
    /\ Moves(t, [threads[t] EXCEPT !.pc = "store", !.reg = stats[threads[t].counter]])
    /\ UNCHANGED <<data_dir, metadata_dir, stats>>

\* ... and one more is written back; the wrapper returns the cached result,
\* runs func, or returns func's result after set
Store(t) ==
    /\ threads[t].pc = "store"
    /\ stats' = [stats EXCEPT ![threads[t].counter] = threads[t].reg + 1]
    /\ Moves(t, [threads[t] EXCEPT
                    !.pc = IF threads[t].then = "func" THEN "func" ELSE "done",
                    !.ret = IF threads[t].then = "func" THEN @
                            ELSE IF threads[t].counter = "saves" THEN threads[t].value
                            ELSE threads[t].got])
    /\ UNCHANGED <<data_dir, metadata_dir>>

\* result = func(*args, **kwargs)
Invoke(t) ==
    /\ threads[t].pc = "func"
    /\ Moves(t, [threads[t] EXCEPT !.pc = "dump", !.invoked = @ + 1])
    /\ UNCHANGED <<data_dir, metadata_dir, stats>>

\* set: with open(cache_path, 'wb') as f: pickle.dump(data, f)
Dump(t) ==
    /\ threads[t].pc = "dump"
    /\ data_dir' = WriteFile(data_dir, get_cache_path(ThreadKey, "data").name,
                             [mtime |-> now, bytes |-> PickleDump(threads[t].value)])
    /\ Moves(t, [threads[t] EXCEPT !.pc = "getsize"])
    /\ UNCHANGED <<metadata_dir, stats>>

\* set: os.path.getsize(cache_path)
GetSize(t) ==
    /\ threads[t].pc = "getsize"
    /\ Moves(t, [threads[t] EXCEPT
                    !.pc = "metadata",
                    !.size = StreamSize(
                                 data_dir[get_cache_path(ThreadKey, "data").name].bytes)])
    /\ UNCHANGED <<data_dir, metadata_dir, stats>>

\* set: json.dump(metadata, f), then the save is counted
WriteMetadata(t) ==
    /\ threads[t].pc = "metadata"
    /\ metadata_dir' =
           WriteFile(metadata_dir, get_cache_path(ThreadKey, "metadata").name,
                     [mtime |-> now,
                      json |-> Metadata(ThreadKey, threads[t].size, threads[t].value,
                                        TRUE)])
    /\ Moves(t, [threads[t] EXCEPT !.pc = "load", !.counter = "saves",
                                   !.then = "return", !.sets = @ + 1])
    /\ UNCHANGED <<data_dir, stats>>

ThreadNext ==
    \E t \in ThreadIds :
        \/ Lookup(t)
        \/ Load(t)
        \/ Store(t)
        \/ Invoke(t)
        \/ Dump(t)
        \/ GetSize(t)
        \/ WriteMetadata(t)

SpecThreads == ThreadInit /\ [][ThreadNext]_vars

\* every thread has returned from its call
AllDone == \A t \in ThreadIds : threads[t].pc = "done"

RECURSIVE Sum(_, _)
Sum(field, ids) ==
    IF ids = {} THEN 0
    ELSE LET t == CHOOSE x \in ids : TRUE
         IN  threads[t][field] + Sum(field, ids \ {t})

(* C25: under concurrent requests no increment of a counter is lost: when  *)
(* the requests have completed g get calls and s set calls, hits + misses  *)
(* + saves + errors = g + s.                                               *)
C25_NoLostIncrement ==
    AllDone =>
        stats.hits + stats.misses + stats.saves + stats.errors
            = Sum("gets", ThreadIds) + Sum("sets", ThreadIds)

(* C26: after two concurrent set(k, v1) and set(k, v2) that both complete, *)
(* in every interleaving of their steps the entry holds one of v1 and v2   *)
(* as payload, a get(k) returns it, and the metadata record's size_bytes   *)
(* and data_type describe that payload.                                    *)
C26_LastWriteWins ==
    (AllDone /\ \A t \in ThreadIds : threads[t].sets = 1) =>
        LET name == get_cache_path(ThreadKey, "data").name
            record == metadata_dir[get_cache_path(ThreadKey, "metadata").name].json
            fresh == get(Cache, ThreadKey, WrapTtl)
        IN  /\ fresh.how = "hit"
            /\ \E t \in ThreadIds : fresh.ret = threads[t].value
            /\ record.size_bytes = StreamSize(data_dir[name].bytes)
            /\ record.data_type = TypeName(fresh.ret)

(* C30: when two concurrent requests call the same wrapped operation with  *)
(* the same arguments and there is no fresh entry for the key, func is     *)
(* invoked at most once in total and both callers get the same result.     *)
C30_SingleComputation ==
    AllDone =>
        /\ Sum("invoked", ThreadIds) <= 1
        /\ \A t, u \in ThreadIds : threads[t].ret = threads[u].ret

----------------------------------------------------------------------------
(* The program: requests for the current conditions and for the forecast,  *)
(* a backend that fails and recovers, disk writes that may fail            *)

ForecastDays == 7

\* requests made in a behaviour
MaxRequests == 2

Request == ops < MaxRequests

NoFaults == [modis |-> "none", landsat |-> "none", risk |-> "none", forecast |-> "none"]

\* at most one set of a request fails, while it writes the payload
Faults ==
    {NoFaults} \cup {[NoFaults EXCEPT ![site] = "dump"] : site \in {"modis", "forecast"}}

\* the backend works, is out, serves one collection only, or reduces an empty
\* collection to statistics without the aggregates
Backends ==
    {[modis |-> ModisUp, landsat |-> LandsatUp],
     [modis |-> Down, landsat |-> Down],
     [modis |-> ModisUp, landsat |-> Down],
     [modis |-> Answer(<<>>, 0), landsat |-> LandsatUp]}

\* the draws of a forecast: all low, or alternating high and low
Draws ==
    {[i \in 1..ForecastDays |-> <<0, 0>>],
     [i \in 1..ForecastDays |-> IF i % 2 = 1 THEN <<0, 999>> ELSE <<999, 0>>]}

Current(faults) ==
    /\ Step
    /\ faults.forecast = "none"
    /\ \E r \in {get_current_conditions(Cache, backend, faults)} :
           /\ Install(r.c)
           /\ last' = [Started EXCEPT !.op = "current", !.answers = backend,
                                      !.raised = r.raised, !.error = r.error,
                                      !.reason = r.reason, !.trace = r.trace,
                                      !.modis_data = r.modis_data,
                                      !.landsat_data = r.landsat_data,
                                      !.risk_data = r.risk_data,
                                      !.report = r.cache_stats]
    /\ UNCHANGED <<backend, now, default_ttl, written, pending>>

Forecast(faults, rnd) ==
    /\ Step
    /\ \E r \in {generate_forecast(Cache, backend, faults, ForecastDays, rnd)} :
           /\ Install(r.c)
           /\ last' = [Started EXCEPT !.op = "forecast", !.answers = backend,
                                      !.ret = r.ret, !.how = r.how, !.got = r.got,
                                      !.invoked = r.invoked, !.raised = r.raised,
                                      !.sets = r.sets,
                                      !.error = IsFailureResult(r.ret)]
           /\ written' = Record(written, r.sets, faults.forecast)
    /\ UNCHANGED <<backend, now, default_ttl, pending>>

BackendChanges(answers) ==
    /\ answers # backend
    /\ backend' = answers
    /\ UNCHANGED <<now, default_ttl, data_dir, metadata_dir, stats, last, written,
                   pending, ops,
                   threads>>

Next ==
    \/ Request /\ \E faults \in Faults : Current(faults)
    \/ Request /\ \E faults \in Faults, rnd \in Draws : Forecast(faults, rnd)
    \/ Request /\ GetCacheStats
    \/ Request /\ \E fault \in ClearFaults : ClearCache(fault)
    \/ \E answers \in Backends : BackendChanges(answers)
    \/ Tick

Spec == Init /\ [][Next]_vars

----------------------------------------------------------------------------
(* The tiers over two hours: forecast and current-conditions requests      *)
(* while the entries of the fetchers and of the risk computation expire    *)
(* and are refreshed                                                       *)

\* half hours a behaviour can let pass
MaxHalfHours == 4

HalfHour ==
    /\ now < MaxHalfHours * 30 * 60
    /\ now' = now + 30 * 60
    /\ UNCHANGED <<backend, default_ttl, data_dir, metadata_dir, stats, last, written,
                   pending, ops,
                   threads>>

\* the backend works, or reduces an empty MODIS collection
TierBackends ==
    {[modis |-> ModisUp, landsat |-> LandsatUp],
     [modis |-> Answer(<<>>, 0), landsat |-> LandsatUp]}

\* the draws of a forecast: alternating high and low
TierDraws == {[i \in 1..ForecastDays |-> IF i % 2 = 1 THEN <<0, 999>> ELSE <<999, 0>>]}

TierNext ==
    \/ Current(NoFaults)
    \/ \E rnd \in TierDraws : Forecast(NoFaults, rnd)
    \/ \E answers \in TierBackends : BackendChanges(answers)
    \/ HalfHour

SpecTiers == Init /\ [][TierNext]_vars

ForecastKey ==
    CallKey("generate_forecast", <<Analyzer>>, << <<"days", PyInt(ForecastDays)>> >>)

\* a forecast request is answered in this step
ForecastStep == last'.op = "forecast" /\ ops' = ops + 1

(* C14: while a forecast stored at t0 has not been removed, a forecast     *)
(* request for the same day count at t with t - t0 < 120 minutes returns   *)
(* the stored sequence unchanged and runs neither the orchestrator nor a   *)
(* fetcher nor the risk computation, even when their entries have expired  *)
(* or were refreshed with other values; the first request with t - t0 >=   *)
(* 120 minutes computes the forecast again from the conditions of then.    *)
C14_ForecastStaleness ==
    [][(ForecastStep /\ ForecastKey \in DOMAIN written) =>
          IF now - written[ForecastKey].at < 120 * 60
          THEN /\ last'.ret = written[ForecastKey].data
               /\ last'.invoked = 0
               /\ stats' = [stats EXCEPT !.hits = @ + 1]
               /\ data_dir' = data_dir
               /\ metadata_dir' = metadata_dir
               /\ written' = written
          ELSE /\ last'.invoked = 1
               /\ written'[ForecastKey] = [data |-> last'.ret, at |-> now]
               /\ \E current \in {get_current_conditions(
                                       get(Cache, ForecastKey, Some(120)).c,
                                       backend, NoFaults)} :
                      IF current.error
                      THEN IsFailureResult(last'.ret)
                      ELSE \E rnd \in TierDraws :
                              last'.ret = PyList(forecast(
                                  ForecastDays,
                                  Item(current.risk_data, "dust_risk_index")[2],
                                  Item(current.modis_data, "lst_day_mean")[2],
                                  rnd))]_vars

\* a forecast served from the cache after a current-conditions request had
\* refreshed the expired entries of the fetchers from an empty MODIS collection
C14_Witness ==
    /\ last.op = "forecast"
    /\ last.how = "hit"
    /\ last.invoked = 0
    /\ ~last.error
    /\ last.at - written[ForecastKey].at >= 60 * 60
    /\ last.answers.modis = Answer(<<>>, 0)
    /\ stats.saves = 7

----------------------------------------------------------------------------
(* The sweep and the forecast: forecast requests and clear_expired calls   *)
(* over two hours                                                          *)

SweepNext ==
    \/ \E rnd \in TierDraws : Forecast(NoFaults, rnd)
    \/ ClearExpired
    \/ HalfHour

SpecSweep == Init /\ [][SweepNext]_vars

ForecastFile == get_cache_path(ForecastKey, "data").name

\* a clear_expired call is made in this step
SweepStep == last'.op = "clear_expired" /\ ops' = ops + 1

(* C21: with the store default of 30 minutes, the forecast entry (120      *)
(* minute TTL) at an age of 30 minutes or more and less than 120 is a hit  *)
(* for a forecast request, yet a clear_expired call at that age removes    *)
(* it, and the forecast request after the sweep misses and computes again  *)
(* although less than 120 minutes have passed since the entry was written. *)
C21_SweepDisagrees ==
    [][/\ (/\ ForecastFile \in DOMAIN data_dir
           /\ now - data_dir[ForecastFile].mtime >= DefaultTtlMinutes * 60
           /\ now - data_dir[ForecastFile].mtime < 120 * 60) =>
              /\ ForecastStep => (last'.how = "hit" /\ last'.invoked = 0)
              /\ SweepStep => (/\ ForecastFile \notin DOMAIN data_dir'
                               /\ ForecastFile \notin DOMAIN metadata_dir')
       /\ (/\ ForecastStep
           /\ last.op = "clear_expired"
           /\ ForecastFile \in DOMAIN last.before_data
           /\ last.at - last.before_data[ForecastFile].mtime >= DefaultTtlMinutes * 60
           /\ now - last.before_data[ForecastFile].mtime < 120 * 60) =>
              (last'.how = "miss" /\ last'.invoked = 1)]_vars

\* a forecast computed a second time, between 30 and 120 minutes after the first
C21_Witness ==
    /\ last.op = "forecast"
    /\ last.how = "miss"
    /\ last.invoked = 1
    /\ last.at >= DefaultTtlMinutes * 60
    /\ last.at < 120 * 60
    /\ stats.saves = 8

----------------------------------------------------------------------------
(* The TTL of each wrapped operation under any store default: requests     *)
(* over two hours in quarter-hour steps against a working backend          *)

\* default_ttl_minutes of the store: shorter than every tier, the shipped
\* one, longer than every tier
DefaultTtls == {5, DefaultTtlMinutes, 240}

TtlInit ==
    /\ backend = [modis |-> ModisUp, landsat |-> LandsatUp]
    /\ now = 0
    /\ \E minutes \in DefaultTtls : default_ttl = minutes * 60
    /\ data_dir = <<>>
    /\ metadata_dir = <<>>
    /\ stats = ZeroStats
    /\ last = NoLast
    /\ written = <<>>
    /\ pending = {}
    /\ ops = 0
    /\ threads = <<>>

TtlNext ==
    \/ Current(NoFaults)
    \/ \E rnd \in TierDraws : Forecast(NoFaults, rnd)
    \/ Tick
    \/ HalfHour

SpecTtl == TtlInit /\ [][TtlNext]_vars

\* the payload file of a wrapped call of the analyzer
EntryOf(func_name, args) ==
    get_cache_path(CallKey(func_name, <<Analyzer>> \o args, <<>>), "data").name

\* the entry exists, and the lookup of the step hit iff it is younger than ttl
ServedWhileYounger(name, how, ttl_minutes) ==
    name \in DOMAIN data_dir =>
        ((how = "hit") <=> (now - data_dir[name].mtime < ttl_minutes * 60))

\* a current-conditions request is answered in this step
CurrentStep == last'.op = "current" /\ ops' = ops + 1

(* C22: the lookup of each wrapped operation uses its own TTL and not the  *)
(* store default.  A repeat call with the same arguments at age a of the   *)
(* entry is served from the cache iff a < 30 minutes for the MODIS         *)
(* aggregate, a < 60 for the Landsat aggregate, a < 15 for the risk        *)
(* computation and a < 120 for the forecast, whatever the store default.   *)
C22_TtlTiers ==
    [][/\ CurrentStep =>
              LET dates == <<DateText(Day(now) - 60), DateText(Day(now))>>
                  trace == last'.trace
              IN  /\ ~last'.error /\ Len(trace) = 3
                  /\ ServedWhileYounger(EntryOf("get_modis_data", dates),
                                        trace[1].how, 30)
                  /\ ServedWhileYounger(EntryOf("get_landsat_data", dates),
                                        trace[2].how, 60)
                  /\ ServedWhileYounger(
                         EntryOf("calculate_dust_risk",
                                 <<last'.modis_data, last'.landsat_data>>),
                         trace[3].how, 15)
       /\ ForecastStep => ServedWhileYounger(ForecastFile, last'.how, 120)]_vars

\* under a store default of 5 minutes, a request that found the MODIS and the
\* Landsat entries fresh and the risk entry too old
C22_Witness ==
    /\ last.op = "current"
    /\ default_ttl = 5 * 60
    /\ Len(last.trace) = 3
    /\ last.trace[1].how = "hit"
    /\ last.trace[2].how = "hit"
    /\ last.trace[3].how = "miss"
    /\ last.trace[3].invoked = 1

----------------------------------------------------------------------------
(* The orchestrator on its own: current-conditions requests while the      *)
(* backend fails and recovers, entries expire and payload writes fail      *)

\* at most one set of a request fails, while it writes the payload
CurrentFaults ==
    {NoFaults} \cup
    {[NoFaults EXCEPT ![site] = "dump"] : site \in {"modis", "landsat", "risk"}}

CurrentNext ==
    \/ Request /\ \E faults \in CurrentFaults : Current(faults)
    \/ \E answers \in Backends : BackendChanges(answers)
    \/ Tick

SpecCurrent == Init /\ [][CurrentNext]_vars

(* C13: get_current_conditions never raises, whichever fetch fails and     *)
(* whatever cache read or write fails.  It returns either the success      *)
(* envelope, with the aggregates, the risk block and the cache statistics  *)
(* of the moment, or the failure envelope, with an error description and   *)
(* the cache statistics.                                                   *)
C13_FailSoft ==
    last.op = "current" =>
        /\ ~last.raised
        /\ last.report = get_stats(Cache)
        /\ IF last.error
           THEN last.reason # ""
           ELSE /\ Has(last.modis_data, "lst_day_mean")
                /\ Has(last.landsat_data, "ndvi_mean")
                /\ Has(last.landsat_data, "nddi_mean")
                /\ Has(last.risk_data, "dust_risk_index")
                /\ Has(last.risk_data, "risk_level")

\* the Landsat fetch failed after the write of the MODIS entry had failed
C13_Witness ==
    /\ last.op = "current"
    /\ last.error
    /\ last.reason = "get_landsat_data"
    /\ stats.errors > last.before.errors

(* C15: a forecast request for N days, computed or served from the cache   *)
(* and whatever the outcome of the current-conditions computation inside   *)
(* it, returns a sequence of exactly N entries, and the entry at position  *)
(* k (from 0) has day_index = k.                                           *)
C15_ForecastLength ==
    last.op = "forecast" =>
        /\ Len(last.ret[2]) = ForecastDays
        /\ \A k \in 1..Len(last.ret[2]) :
               /\ Has(last.ret[2][k], "day_index")
               /\ Item(last.ret[2][k], "day_index") = PyInt(k - 1)

----------------------------------------------------------------------------
(* The fetchers when the backend reduces a region without the expected     *)
(* aggregates: a statistic is absent from the answer, or present without a *)
(* value (null, None after getInfo)                                        *)

ModisAnswers ==
    {ModisUp,
     Answer(<< <<PyStr("LST_Day_1km_stdDev"), PyFloat(2000)>> >>, 60),
     Answer(<<>>, 0),
     Answer(<< <<PyStr("LST_Day_1km_mean"), PyNone>>,
               <<PyStr("LST_Day_1km_stdDev"), PyNone>> >>, 0)}

LandsatAnswers ==
    {LandsatUp,
     Answer(<< <<PyStr("NDVI_mean"), PyFloat(100)>>,
               <<PyStr("NDVI_stdDev"), PyFloat(50)>> >>, 12),
     Answer(<<>>, 0),
     Answer(<< <<PyStr("NDVI_mean"), PyNone>>,
               <<PyStr("NDVI_stdDev"), PyNone>>,
               <<PyStr("NDDI_mean"), PyNone>>,
               <<PyStr("NDDI_stdDev"), PyNone>> >>, 0)}

FetchInit ==
    /\ \E modis \in ModisAnswers, landsat \in LandsatAnswers :
          backend = [modis |-> modis, landsat |-> landsat]
    /\ now = 0
    /\ default_ttl = DefaultTtlMinutes * 60
    /\ data_dir = <<>>
    /\ metadata_dir = <<>>
    /\ stats = ZeroStats
    /\ last = NoLast
    /\ written = <<>>
    /\ pending = {}
    /\ ops = 0
    /\ threads = <<>>

FetchNext ==
    \/ Request /\ Current(NoFaults)
    \/ Tick

SpecFetch == FetchInit /\ [][FetchNext]_vars

\* the answer gives a value for the statistic
Provides(answer, name) == Has(answer.stats, name) /\ Item(answer.stats, name) # PyNone

\* the fetcher's result reports the statistic, or 0.0 when the answer has none
Reports(result, field, answer, name) ==
    Item(result, field) = (IF Provides(answer, name)
                           THEN ToFloat(Item(answer.stats, name)).value
                           ELSE PyFloat(0))

(* C24: when the backend's reduced statistics give no value for a mean or  *)
(* a standard deviation of LST, NDVI or NDDI, the fetcher still completes  *)
(* and reports 0.0 for it; the result is cached and given to the risk      *)
(* computation like any other.                                             *)
C24_SilentDefault ==
    (last.op = "current" /\ last.at = 0 /\ ops = 1) =>
        /\ ~last.error
        /\ Reports(last.modis_data, "lst_day_mean", last.answers.modis, "LST_Day_1km_mean")
        /\ Reports(last.modis_data, "lst_day_std", last.answers.modis, "LST_Day_1km_stdDev")
        /\ Reports(last.landsat_data, "ndvi_mean", last.answers.landsat, "NDVI_mean")
        /\ Reports(last.landsat_data, "ndvi_std", last.answers.landsat, "NDVI_stdDev")
        /\ Reports(last.landsat_data, "nddi_mean", last.answers.landsat, "NDDI_mean")
        /\ Reports(last.landsat_data, "nddi_std", last.answers.landsat, "NDDI_stdDev")
        /\ stats.saves = 3
        /\ last.risk_data =
              calculate_dust_risk_func(last.modis_data, last.landsat_data).value

\* the wrapped calls of get_current_conditions, in the order of the code
Sites == <<"get_modis_data", "get_landsat_data", "calculate_dust_risk">>

\* the number of entries of a trace whose lookup was counted as a hit or a miss
RECURSIVE Counted(_)
Counted(trace) ==
    IF trace = <<>> THEN 0
    ELSE (IF Top(trace).how \in {"hit", "miss"} THEN 1 ELSE 0) + Counted(Front(trace))

(* C23: within one get_current_conditions call the steps run in the order  *)
(* MODIS fetch, Landsat fetch, risk computation, envelope.  A step starts   *)
(* only after the one before it has returned without failing; the risk     *)
(* computation receives the two results of the fetches; after a step that  *)
(* fails no later step is invoked and no later lookup is made.             *)
C23_OrchestrationOrder ==
    last.op = "current" =>
        LET trace == last.trace
        IN  /\ Len(trace) \in 1..3
            /\ \A i \in 1..Len(trace) : trace[i].site = Sites[i]
            /\ \A i \in 1..Len(trace) - 1 : ~trace[i].raised
            /\ last.error <=> trace[Len(trace)].raised
            /\ ~last.error => Len(trace) = 3
            /\ (stats.hits + stats.misses) - (last.before.hits + last.before.misses)
                  = Counted(trace)
            /\ (Len(trace) = 3 /\ trace[3].invoked = 1 /\ ~last.error) =>
                   last.risk_data =
                       calculate_dust_risk_func(last.modis_data, last.landsat_data).value

\* the MODIS fetch fails while the Landsat entry of an earlier request is
\* still fresh: no lookup of it is made
C23_Witness ==
    /\ last.op = "current"
    /\ last.error
    /\ Len(last.trace) = 1
    /\ last.trace[1].raised
    /\ stats.hits = last.before.hits
    /\ is_cache_valid(Cache,
                      [dir |-> "data",
                       name |-> EntryOf("get_landsat_data",
                                        <<DateText(Day(now) - 60), DateText(Day(now))>>)],
                      Some(60 * 60))

----------------------------------------------------------------------------
(* Clearing the cache between requests                                     *)

ClearNext ==
    \/ Current(NoFaults)
    \/ \E rnd \in TierDraws : Forecast(NoFaults, rnd)
    \/ \E fault \in ClearFaults : ClearCache(fault)
    \/ HalfHour

SpecClear == Init /\ [][ClearNext]_vars

\* a clear-cache request is answered
Cleared(status) == ops' = ops + 1 /\ last'.op = "clear_cache" /\ last'.status = status

\* the first request after a clear-cache request that succeeded
AfterClear(op) ==
    last.op = "clear_cache" /\ last.status = 200 /\ ops' = ops + 1 /\ last'.op = op

(* C27: when the clear-cache operation succeeds the store holds no payload *)
(* and no metadata record, the four counters are 0, cleared_files is the   *)
(* number of payload plus metadata records that existed, and the next call *)
(* of every wrapped operation misses and recomputes; when a removal fails  *)
(* the operation reports an error and leaves the counters as they were.    *)
C27_ExplicitClear ==
    [][/\ Cleared(200) =>
              /\ data_dir' = <<>>
              /\ metadata_dir' = <<>>
              /\ stats' = ZeroStats
              /\ last'.cleared = Cardinality(DOMAIN data_dir)
                                     + Cardinality(DOMAIN metadata_dir)
       /\ (ops' = ops + 1 /\ last'.op = "clear_cache" /\ last'.status # 200) =>
              /\ last'.status = 500
              /\ last'.fault # "none"
              /\ stats' = stats
       /\ AfterClear("current") =>
              /\ Len(last'.trace) = 3
              /\ \A i \in 1..3 : /\ last'.trace[i].site = Sites[i]
                                 /\ last'.trace[i].how = "miss"
                                 /\ last'.trace[i].invoked = 1
              /\ stats' = [hits |-> 0, misses |-> 3, saves |-> 3, errors |-> 0]
       /\ AfterClear("forecast") =>
              /\ last'.how = "miss"
              /\ last'.invoked = 1
              /\ stats' = [hits |-> 0, misses |-> 4, saves |-> 4, errors |-> 0]
      ]_vars

\* the four entries of a forecast request and their metadata are cleared
C27_Witness ==
    /\ last.op = "clear_cache"
    /\ last.status = 200
    /\ last.cleared = 8
    /\ last.before.errors = 0
    /\ last.before.saves = 4
    /\ Cardinality(DOMAIN last.before_data) = 4
    /\ Cache = [data |-> <<>>, metadata |-> <<>>, stats |-> ZeroStats]

(* C29: in every success envelope of get_current_conditions the risk block *)
(* is the risk function applied to the MODIS and Landsat aggregates of the *)
(* same envelope, also when the risk result was served from the cache: the *)
(* key of the risk entry is made of the values of its two inputs, so a     *)
(* refreshed aggregate with another value is never combined with a risk    *)
(* result computed from the old value.                                     *)
C29_SnapshotConsistency ==
    (last.op = "current" /\ ~last.error) =>
        /\ Len(last.trace) = 3
        /\ ~calculate_dust_risk_func(last.modis_data, last.landsat_data).raised
        /\ last.risk_data =
               calculate_dust_risk_func(last.modis_data, last.landsat_data).value
        /\ last.trace[3].how = "hit" =>
               /\ last.trace[3].invoked = 0
               /\ EntryOf("calculate_dust_risk", <<last.modis_data, last.landsat_data>>)
                      \in DOMAIN data_dir

\* the MODIS aggregate was fetched again after a torn write and has another
\* value than the one of the request before, whose risk entry is still fresh
C29_Witness ==
    /\ last.op = "current"
    /\ ~last.error
    /\ last.trace[1].how = "error"
    /\ last.trace[1].invoked = 1
    /\ last.trace[3].how = "miss"
    /\ \E name \in DOMAIN data_dir :
           /\ name # EntryOf("calculate_dust_risk",
                             <<last.modis_data, last.landsat_data>>)
           /\ name = EntryOf("calculate_dust_risk",
                             <<get_modis_data_func(ModisUp).value, last.landsat_data>>)
           /\ is_cache_valid(Cache, [dir |-> "data", name |-> name], Some(15 * 60))

----------------------------------------------------------------------------
(* The store over the life of the process: requests of every route and     *)
(* direct lookups and saves of the forecast entry, while two hours pass.   *)
(* clear_expired is called by TashkentDustAnalyzer.__init__ alone, before  *)
(* the first request, so it is no step of the running process.             *)

KeepNext ==
    \/ Request /\ \E faults \in Faults : Current(faults)
    \/ Request /\ \E faults \in Faults, rnd \in TierDraws : Forecast(faults, rnd)
    \/ Request /\ GetCacheStats
    \/ Request /\ \E fault \in ClearFaults : ClearCache(fault)
    \/ Request /\ Get(ForecastKey, Some(120))
    \/ Request /\ \E fault \in SetFaults : Set(ForecastKey, PyInt(7), fault, 0)
    \/ HalfHour

SpecKeep == Init /\ [][KeepNext]_vars

\* the longest TTL an entry is looked up with
LongestTtlMinutes == 120

\* the step kept every file of the directory, unchanged or written anew
Kept(dir, dir_after) ==
    \A name \in DOMAIN dir :
        /\ name \in DOMAIN dir_after
        /\ dir_after[name] # dir[name] => dir_after[name].mtime = now

(* C31: entries are removed only by the sweep or the explicit clear.  No   *)
(* get, set, stats request, wrapped call, current-conditions or forecast   *)
(* request removes a payload or a metadata record, so the stored keys do   *)
(* not shrink between two clears; the sweep runs only at construction, so  *)
(* an entry expired under every TTL stays in the store until it is         *)
(* overwritten under its key or the clear-cache operation runs.            *)
C31_OnlySweepOrClearRemoves ==
    [][~(ops' = ops + 1 /\ last'.op = "clear_cache") =>
           /\ Kept(data_dir, data_dir')
           /\ Kept(metadata_dir, metadata_dir')
           /\ last'.op # "clear_expired"
           /\ \A name \in DOMAIN data_dir :
                  (/\ ~is_cache_valid(Cache, [dir |-> "data", name |-> name],
                                      Some(LongestTtlMinutes * 60))
                   /\ data_dir'[name] # data_dir[name]) =>
                      /\ ops' = ops + 1
                      /\ last'.op \in {"set", "current", "forecast"}
                      /\ data_dir'[name].mtime = now
      ]_vars

\* a current-conditions request two hours after a forecast request: the
\* forecast entry is expired under every TTL and is still stored
C31_Witness ==
    /\ last.op = "current"
    /\ ~last.error
    /\ last.at = now
    /\ ForecastFile \in DOMAIN data_dir
    /\ ForecastFile \in DOMAIN metadata_dir
    /\ now - data_dir[ForecastFile].mtime >= LongestTtlMinutes * 60
    /\ ~is_cache_valid(Cache, [dir |-> "data", name |-> ForecastFile],
                       Some(LongestTtlMinutes * 60))
    /\ ~is_cache_valid(Cache, [dir |-> "data", name |-> ForecastFile], None)

(* C4: a failure of the remote backend is never cached at any layer.  No   *)
(* entry written during a request in which a fetcher failed carries the    *)
(* failure, so once the backend works again a request is not served a      *)
(* failure result from the cache.                                          *)
C4_FailureNeverServed ==
    (last.op = "forecast" /\ last.answers = [modis |-> ModisUp, landsat |-> LandsatUp]) =>
        ~(last.how = "hit" /\ IsFailureResult(last.ret))

=============================================================================
